---------------------------- MODULE Spec2Model ----------------------------
(***************************************************************************)
(* A model of the tape_light LED animation engine: LightSegment (motion    *)
(* and dimming), LightEffect (rendering / compositing) and LightScene      *)
(* (effect / palette transitions).                                         *)
(*                                                                         *)
(* Python floats are modelled by exact fixed-point / rational arithmetic:  *)
(* positions are integers counting 1/PosDen LED, times are integers        *)
(* counting 1/MsDen millisecond, fractions are records [n, d].             *)
(***************************************************************************)
EXTENDS Integers, Sequences, FiniteSets, TLC

VARIABLES
    segment,      \* one LightSegment
    segOp,        \* the last operation applied to the segment
    segStartOk,   \* whether the segment was constructed inside its range
    brightness,   \* what apply_dimming returned for the current segment
    effect,       \* one LightEffect with its segments
    ledOutput,    \* how the last get_led_output of the effect ended
    pixel,        \* one LED of the compositing buffers (colour, transparency)
    compIn,       \* the inputs of the last compositing step on that LED
    scene,        \* one LightScene with its effects
    sceneLog,     \* the last operation on the scene and what preceded it
    manager,      \* one SceneManager with its scenes
    mgrLog,       \* the last operation on the manager and its commands
    handler,      \* one OSCHandler with its table of scenes
    oscLog,       \* the last control message and how its callback ended
    ftrans,       \* the schedule of a manager transition, in floats
    emitter,      \* the handler's fields of the binary output
    wire,         \* the clock and the datagrams sent so far
    threads,      \* the server's threads and the render loop on one table
    tables,       \* the scenes with the colours of their palette tables
    stage         \* the handler's scene ids, its simulator and the frames sent

segVars == <<segment, segOp, segStartOk, brightness>>

effVars == <<effect, ledOutput>>

compVars == <<pixel, compIn>>

sceneVars == <<scene, sceneLog>>

mgrVars == <<manager, mgrLog>>

oscVars == <<handler, oscLog>>

floatVars == <<ftrans>>

emitVars == <<emitter, wire>>

raceVars == <<threads>>

palVars == <<tables>>

liveVars == <<stage>>

vars == <<segment, segOp, segStartOk, brightness, effect, ledOutput,
          pixel, compIn, scene, sceneLog, manager, mgrLog, handler, oscLog,
          ftrans, emitter, wire, threads, tables, stage>>

\* What the operations of one part of the model leave alone.
SegFrame == UNCHANGED <<effVars, compVars, sceneVars, mgrVars, oscVars, floatVars, emitVars, raceVars, palVars, liveVars>>

EffFrame == UNCHANGED <<segVars, compVars, sceneVars, mgrVars, oscVars, floatVars, emitVars, raceVars, palVars, liveVars>>

CompFrame == UNCHANGED <<segVars, effVars, sceneVars, mgrVars, oscVars, floatVars, emitVars, raceVars, palVars, liveVars>>

SceneFrame == UNCHANGED <<segVars, effVars, compVars, mgrVars, oscVars, floatVars, emitVars, raceVars, palVars, liveVars>>

MgrFrame == UNCHANGED <<segVars, effVars, compVars, sceneVars, oscVars, floatVars, emitVars, raceVars, palVars, liveVars>>

OscFrame == UNCHANGED <<segVars, effVars, compVars, sceneVars, mgrVars, floatVars, emitVars, raceVars, palVars, liveVars>>

FloatFrame == UNCHANGED <<segVars, effVars, compVars, sceneVars, mgrVars, oscVars, emitVars, raceVars, palVars, liveVars>>

EmitFrame == UNCHANGED <<segVars, effVars, compVars, sceneVars, mgrVars, oscVars, floatVars, raceVars, palVars, liveVars>>

RaceFrame == UNCHANGED <<segVars, effVars, compVars, sceneVars, mgrVars, oscVars, floatVars, emitVars, palVars, liveVars>>

PalFrame == UNCHANGED <<segVars, effVars, compVars, sceneVars, mgrVars, oscVars, floatVars, emitVars, raceVars, liveVars>>

LiveFrame == UNCHANGED <<segVars, effVars, compVars, sceneVars, mgrVars, oscVars, floatVars, emitVars, raceVars, palVars>>

---------------------------------------------------------------------------
(* Arithmetic helpers                                                      *)

Abs(x) == IF x < 0 THEN -x ELSE x

Min(a, b) == IF a <= b THEN a ELSE b

Max(a, b) == IF a >= b THEN a ELSE b

\* Python's int(): truncation toward zero of the rational n/d (d > 0).
PyInt(n, d) == IF n >= 0 THEN n \div d ELSE -((-n) \div d)

\* Python's math.floor of the rational n/d (d > 0); \div floors in TLA+.
PyFloor(n, d) == n \div d

Sum3(s) == s[1] + s[2] + s[3]

---------------------------------------------------------------------------
(* LightSegment: motion                                                    *)

\* Rational numbers n/d with d > 0.
Frac(n, d) == [n |-> n, d |-> d]

FracEq(a, b) == a.n * b.d = b.n * a.d

FracLe(a, b) == a.n * b.d <= b.n * a.d

RECURSIVE Gcd(_, _)
Gcd(a, b) == IF b = 0 THEN a ELSE Gcd(b, a % b)

\* n/d in lowest terms with a positive denominator (d # 0).
Reduced(n, d) ==
    LET g == Gcd(Abs(n), Abs(d))
        sg == IF d < 0 THEN -1 ELSE 1
    IN  Frac(sg * (n \div g), sg * (d \div g))

FracAdd(a, b) == Reduced(a.n * b.d + b.n * a.d, a.d * b.d)

FracSub(a, b) == Reduced(a.n * b.d - b.n * a.d, a.d * b.d)

FracMul(a, b) == Reduced(a.n * b.n, a.d * b.d)

\* a / b for b # 0.
FracDiv(a, b) == Reduced(a.n * b.d, a.d * b.n)

\* max(0.0, min(1.0, a))
FracClamp01(a) ==
    IF a.n < 0 THEN Frac(0, 1) ELSE IF a.n > a.d THEN Frac(1, 1) ELSE a

\* Fixed-point unit of positions (1/PosDen LED).
PosDen == 10

\* Unit of time: 1/MsDen millisecond.
MsDen == 2

\* The time step dt = 1.0 / fps, in units of time.
TimeStep(fps) == (1000 * MsDen) \div fps

\* Denominator of dimmer_time_ratio.
RatioDen == 2

\* config.DEFAULT_COLOR_PALETTES
DEFAULT_COLOR_PALETTES ==
    [ A |-> << <<255, 0, 0>>, <<0, 255, 0>>, <<0, 0, 255>>,
               <<255, 255, 0>>, <<0, 255, 255>>, <<255, 0, 255>> >>,
      B |-> << <<255, 128, 0>>, <<128, 0, 255>>, <<0, 128, 255>>,
               <<255, 0, 128>>, <<128, 255, 0>>, <<255, 255, 255>> >>,
      C |-> << <<128, 0, 0>>, <<0, 128, 0>>, <<0, 0, 128>>,
               <<128, 128, 0>>, <<0, 128, 128>>, <<128, 0, 128>> >>,
      D |-> << <<255, 200, 200>>, <<200, 255, 200>>, <<200, 200, 255>>,
               <<255, 255, 200>>, <<200, 255, 255>>, <<255, 200, 255>> >>,
      E |-> << <<100, 100, 100>>, <<150, 150, 150>>, <<200, 200, 200>>,
               <<255, 100, 50>>, <<50, 100, 255>>, <<150, 255, 150>> >> ]

\* LightSegment.calculate_rgb(palette_name) for a list of four indices.
CalculateRgb(color, palette_name) ==
    LET palette == IF palette_name \in DOMAIN DEFAULT_COLOR_PALETTES
                   THEN DEFAULT_COLOR_PALETTES[palette_name]
                   ELSE DEFAULT_COLOR_PALETTES["A"]
    IN  [k \in 1..Len(color) |->
            IF 0 <= color[k] /\ color[k] < Len(palette)
            THEN palette[color[k] + 1]
            ELSE <<255, 0, 0>>]

DefaultColor == <<0, 1, 2, 3>>

DefaultTransparency == <<Frac(1, 1), Frac(1, 1), Frac(1, 1), Frac(1, 1)>>

DefaultDimmerTime == <<0, 100, 200, 100, 0>>

\* Frame rates handed to update_position; each divides PosDen, so that
\* move_speed * (1/fps) is exact in units of 1/PosDen.
FpsSet == {5, 10}

SpeedSet == {-10, 0, 3, 15}

RangeSet == {<<0, 9>>, <<5, 2>>, <<4, 4>>}

LengthSet == {<<1, 1, 1>>, <<0, 0, 0>>, <<2, 0, 3>>}

\* Values of initial_position given to the constructor.
InitPosSet == {0, 4, 9}

\* Cap of the segment's accumulated time in the motion model, in 1/10 s.
MaxSegTime == 4

\* LightSegment.__init__: move_range is normalised, current_position is
\* float(initial_position), direction follows the sign of move_speed.
NewSegment(color, transparency, length, move_speed, move_range, initial_position, is_edge_reflect, dimmer_time, dimmer_time_ratio) ==
    [ color             |-> color,
      transparency      |-> transparency,
      length            |-> length,
      move_speed        |-> move_speed,
      move_range        |-> << Min(move_range[1], move_range[2]),
                               Max(move_range[1], move_range[2]) >>,
      initial_position  |-> initial_position,
      current_position  |-> initial_position * PosDen,
      is_edge_reflect   |-> is_edge_reflect,
      dimmer_time       |-> dimmer_time,
      dimmer_time_ratio |-> dimmer_time_ratio,
      time              |-> 0,
      direction         |-> IF move_speed >= 0 THEN 1 ELSE -1,
      gradient          |-> FALSE,
      fade              |-> FALSE,
      gradient_colors   |-> <<0, -1, -1>>,
      rgb_color         |-> CalculateRgb(color, "A"),
      total_length      |-> Sum3(length) ]

\* A segment with the default colours, transparency and dimmer.
MovingSegment(length, move_speed, move_range, initial_position, is_edge_reflect) ==
    NewSegment(DefaultColor, DefaultTransparency, length, move_speed,
               move_range, initial_position, is_edge_reflect,
               DefaultDimmerTime, RatioDen)

\* update_param('move_range', value) with a two-element value.
SetMoveRange(s, value) ==
    LET lo == Min(value[1], value[2])
        hi == Max(value[1], value[2])
        p  == s.current_position
    IN  [s EXCEPT !.move_range = <<lo, hi>>,
                  !.current_position =
                      IF p < lo * PosDen THEN lo * PosDen
                      ELSE IF p > hi * PosDen THEN hi * PosDen
                      ELSE p]

\* update_param('move_speed', value).
SetMoveSpeed(s, value) ==
    [s EXCEPT !.move_speed = value,
              !.direction = IF value >= 0 THEN 1 ELSE -1]

\* update_param(name, value) for a name with no special handling: setattr.
SetAttr(s, name, value) ==
    IF name = "length" THEN [s EXCEPT !.length = value]
    ELSE IF name = "is_edge_reflect" THEN [s EXCEPT !.is_edge_reflect = value]
    ELSE IF name = "fade" THEN [s EXCEPT !.fade = value]
    ELSE s

\* ReflectEdge with the upper clamp forgetting the segment's length.
ReflectEdge_NoLength(s, new_position, total_length) ==
    LET lo == s.move_range[1] * PosDen
        hi == s.move_range[2] * PosDen
    IN  IF new_position < lo
        THEN [s EXCEPT !.current_position = lo,
                       !.direction = 1,
                       !.move_speed = Abs(s.move_speed)]
        ELSE IF new_position + (total_length - 1) * PosDen > hi
        THEN [s EXCEPT !.current_position = hi,
                       !.direction = -1,
                       !.move_speed = -Abs(s.move_speed)]
        ELSE [s EXCEPT !.current_position = new_position]

\* ReflectEdge that puts the segment back and keeps its speed.
ReflectEdge_KeepSpeed(s, new_position, total_length) ==
    LET lo == s.move_range[1] * PosDen
        hi == s.move_range[2] * PosDen
    IN  IF new_position < lo
        THEN [s EXCEPT !.current_position = lo, !.direction = 1]
        ELSE IF new_position + (total_length - 1) * PosDen > hi
        THEN [s EXCEPT !.current_position = hi - (total_length - 1) * PosDen,
                       !.direction = -1]
        ELSE [s EXCEPT !.current_position = new_position]

\* The reflect branch of update_position: at most one reflection.
ReflectEdge(s, new_position, total_length) ==
    LET lo == s.move_range[1] * PosDen
        hi == s.move_range[2] * PosDen
    IN  IF new_position < lo
        THEN [s EXCEPT !.current_position = lo,
                       !.direction = 1,
                       !.move_speed = Abs(s.move_speed)]
        ELSE IF new_position + (total_length - 1) * PosDen > hi
        THEN [s EXCEPT !.current_position = hi - (total_length - 1) * PosDen,
                       !.direction = -1,
                       !.move_speed = -Abs(s.move_speed)]
        ELSE [s EXCEPT !.current_position = new_position]

\* WrapOvershoot measuring the overshoot from the anchor alone.
WrapOvershoot_AnchorOnly(s, new_position, total_length) ==
    LET lo == s.move_range[1] * PosDen
        hi == s.move_range[2] * PosDen
    IN  IF new_position < lo
        THEN hi - (lo - new_position) + PosDen
        ELSE IF new_position + (total_length - 1) * PosDen > hi
        THEN lo + (new_position - hi) - PosDen
        ELSE new_position

\* The wrap step of update_position (before the final clamp).
WrapOvershoot(s, new_position, total_length) ==
    LET lo == s.move_range[1] * PosDen
        hi == s.move_range[2] * PosDen
    IN  IF new_position < lo
        THEN hi - (lo - new_position) + PosDen
        ELSE IF new_position + (total_length - 1) * PosDen > hi
        THEN lo + (new_position + (total_length - 1) * PosDen - hi) - PosDen
        ELSE new_position

\* WrapClamp with the final clamp left out.
WrapClamp_None(s, new_position, total_length) == new_position

\* The final clamp of the wrap branch.
WrapClamp(s, new_position, total_length) ==
    LET lo == s.move_range[1] * PosDen
        hi == s.move_range[2] * PosDen
    IN  IF new_position < lo THEN lo
        ELSE IF new_position + (total_length - 1) * PosDen > hi
        THEN hi - (total_length - 1) * PosDen
        ELSE new_position

WrapEdge(s, new_position, total_length) ==
    [s EXCEPT !.current_position =
        WrapClamp(s, WrapOvershoot(s, new_position, total_length), total_length)]

\* LightSegment.update_position(fps).
UpdatePosition(s, fps) ==
    LET dt           == TimeStep(fps)
        t            == [s EXCEPT !.time = s.time + dt]
        delta        == (s.move_speed * PosDen) \div fps
        new_position == s.current_position + delta
        total_length == Sum3(s.length)
    IN  IF s.is_edge_reflect
        THEN ReflectEdge(t, new_position, total_length)
        ELSE WrapEdge(t, new_position, total_length)

\* The raw position current + move_speed * dt that a tick starts from.
RawPosition(s, fps) == s.current_position + (s.move_speed * PosDen) \div fps

RangeWidth(s) == s.move_range[2] - s.move_range[1] + 1

LowerOk(s) == s.move_range[1] * PosDen <= s.current_position

UpperOk(s) ==
    s.current_position + (Sum3(s.length) - 1) * PosDen <= s.move_range[2] * PosDen

NotComputed == [valid |-> FALSE, value |-> Frac(0, 1)]

\* The record of an operation that is not a tick.
NoTick(name) == [op |-> name, fps |-> 0, from |-> 0, raw |-> 0]

SegInit ==
    \E length \in LengthSet, move_speed \in SpeedSet, move_range \in RangeSet,
       initial_position \in InitPosSet, is_edge_reflect \in BOOLEAN :
        /\ segment = MovingSegment(length, move_speed, move_range,
                                   initial_position, is_edge_reflect)
        /\ segOp = NoTick("init")
        /\ segStartOk = (LowerOk(segment) /\ UpperOk(segment))
        /\ brightness = NotComputed

SegTick ==
    \E fps \in FpsSet :
        /\ segment.time + TimeStep(fps) <= MaxSegTime * 100 * MsDen
        /\ segment' = UpdatePosition(segment, fps)
        /\ segOp' = [op |-> "update_position", fps |-> fps,
                     from |-> segment.current_position,
                     raw |-> RawPosition(segment, fps)]
        /\ UNCHANGED <<segStartOk, brightness>>
        /\ SegFrame

SegSetMoveRange ==
    \E value \in RangeSet :
        /\ segment' = SetMoveRange(segment, value)
        /\ segOp' = NoTick("move_range")
        /\ UNCHANGED <<segStartOk, brightness>>
        /\ SegFrame

SegSetLength ==
    \E value \in LengthSet :
        /\ segment' = SetAttr(segment, "length", value)
        /\ segOp' = NoTick("length")
        /\ UNCHANGED <<segStartOk, brightness>>
        /\ SegFrame

SegSetEdgeReflect ==
    \E value \in BOOLEAN :
        /\ segment' = SetAttr(segment, "is_edge_reflect", value)
        /\ segOp' = NoTick("is_edge_reflect")
        /\ UNCHANGED <<segStartOk, brightness>>
        /\ SegFrame

SegSetMoveSpeed ==
    \E value \in SpeedSet :
        /\ segment' = SetMoveSpeed(segment, value)
        /\ segOp' = NoTick("move_speed")
        /\ UNCHANGED <<segStartOk, brightness>>
        /\ SegFrame

SegNext ==
    \/ SegTick
    \/ SegSetMoveRange
    \/ SegSetLength
    \/ SegSetEdgeReflect
    \/ SegSetMoveSpeed

\* Positions and speeds of the segments whose reflections are followed.
ReflectPosSet == {0, 8, 9}

ReflectSpeedSet == {-10, 10, 15}

ReflectInit ==
    \E length \in LengthSet, move_speed \in ReflectSpeedSet, move_range \in RangeSet,
       initial_position \in ReflectPosSet :
        /\ segment = MovingSegment(length, move_speed, move_range,
                                   initial_position, TRUE)
        /\ segOp = NoTick("init")
        /\ segStartOk = (LowerOk(segment) /\ UpperOk(segment))
        /\ brightness = NotComputed

ReflectNext == SegTick \/ SegSetMoveSpeed

SegIdle ==
    /\ segment = MovingSegment(<<1, 1, 1>>, 0, <<0, 9>>, 0, TRUE)
    /\ segOp = NoTick("init")
    /\ segStartOk = TRUE
    /\ brightness = NotComputed

---------------------------------------------------------------------------
(* LightSegment: dimming envelope                                          *)

\* dimmer_time_ratio values, as numerators over RatioDen (0.5, 1.0, 1.5).
RatioSet == {1, 2, 3}

DimmerTimeSet ==
    { <<0, 100, 400, 500, 1000>>,
      <<0, 100, 200, 100, 0>>,
      <<25, 75, 125, 175, 225>>,
      <<0, 0, 1, 1, 1>>,
      <<300, 100, 200, 400, 1000>> }

\* Frame rates that advance the time: 1/16 s = 62.5 ms, 1/20 s = 50 ms.
DimFpsSet == {16, 20}

\* Cap of the segment's time in the dimming model, in milliseconds.
MaxDimTime == 1100

\* int(self.dimmer_time[i] * ratio), i counted from 1.
DimScaled(d, i) == PyInt(d.dimmer_time[i] * d.dimmer_time_ratio, RatioDen)

\* int((self.time * 1000) % cycle_time), for time >= 0 and cycle_time > 0.
DimCurrentTime(d, cycle_time) == PyInt(d.time % (cycle_time * MsDen), MsDen)

\* ApplyDimming returning the fade-in progress during the fade-out phase.
ApplyDimming_NoFadeOut(d) ==
    IF ~d.fade \/ Len(d.dimmer_time) < 5 THEN Frac(1, 1)
    ELSE IF d.dimmer_time[5] <= 0 THEN Frac(1, 1)
    ELSE
    LET cycle_time == DimScaled(d, 5)
    IN  IF cycle_time <= 0 THEN Frac(1, 1)
        ELSE
        LET current_time   == DimCurrentTime(d, cycle_time)
            fade_in_start  == DimScaled(d, 1)
            fade_in_end    == DimScaled(d, 2)
            fade_out_start == DimScaled(d, 3)
            fade_out_end   == DimScaled(d, 4)
        IN  IF current_time < fade_in_start THEN Frac(0, 1)
            ELSE IF current_time < fade_in_end
            THEN Frac(current_time - fade_in_start,
                      Max(1, fade_in_end - fade_in_start))
            ELSE IF current_time < fade_out_start THEN Frac(1, 1)
            ELSE IF current_time < fade_out_end
            THEN Frac(current_time - fade_out_start,
                      Max(1, fade_out_end - fade_out_start))
            ELSE Frac(0, 1)

\* LightSegment.apply_dimming.
ApplyDimming(d) ==
    IF ~d.fade \/ Len(d.dimmer_time) < 5 THEN Frac(1, 1)
    ELSE IF d.dimmer_time[5] <= 0 THEN Frac(1, 1)
    ELSE
    LET cycle_time == DimScaled(d, 5)
    IN  IF cycle_time <= 0 THEN Frac(1, 1)
        ELSE
        LET current_time   == DimCurrentTime(d, cycle_time)
            fade_in_start  == DimScaled(d, 1)
            fade_in_end    == DimScaled(d, 2)
            fade_out_start == DimScaled(d, 3)
            fade_out_end   == DimScaled(d, 4)
        IN  IF current_time < fade_in_start THEN Frac(0, 1)
            ELSE IF current_time < fade_in_end
            THEN Frac(current_time - fade_in_start,
                      Max(1, fade_in_end - fade_in_start))
            ELSE IF current_time < fade_out_start THEN Frac(1, 1)
            ELSE IF current_time < fade_out_end
            THEN Frac(Max(1, fade_out_end - fade_out_start)
                          - (current_time - fade_out_start),
                      Max(1, fade_out_end - fade_out_start))
            ELSE Frac(0, 1)

DimInit ==
    \E fade \in BOOLEAN, dimmer_time \in DimmerTimeSet, ratio \in RatioSet :
        /\ segment = [NewSegment(DefaultColor, DefaultTransparency, <<1, 1, 1>>,
                                 0, <<0, 9>>, 0, TRUE, dimmer_time, ratio)
                          EXCEPT !.fade = fade]
        /\ segOp = NoTick("init")
        /\ segStartOk = TRUE
        /\ brightness = NotComputed

\* A tick of the (resting) segment: update_position advances its time.
DimTick ==
    \E fps \in DimFpsSet :
        /\ segment.time + TimeStep(fps) <= MaxDimTime * MsDen
        /\ segment' = UpdatePosition(segment, fps)
        /\ segOp' = [op |-> "update_position", fps |-> fps,
                     from |-> segment.current_position,
                     raw |-> RawPosition(segment, fps)]
        /\ brightness' = NotComputed
        /\ UNCHANGED segStartOk
        /\ SegFrame

\* A call of apply_dimming on the current state.
DimApply ==
    /\ brightness' = [valid |-> TRUE, value |-> ApplyDimming(segment)]
    /\ UNCHANGED <<segment, segOp, segStartOk>>
    /\ SegFrame

\* segment.fade = ... (the fade toggle).
DimSetFade ==
    \E fade \in BOOLEAN :
        /\ segment' = SetAttr(segment, "fade", fade)
        /\ segOp' = NoTick("fade")
        /\ brightness' = NotComputed
        /\ UNCHANGED segStartOk
        /\ SegFrame

DimNext ==
    \/ DimTick
    \/ DimApply
    \/ DimSetFade

---------------------------------------------------------------------------
(* Colour kernel (utils/color_utils.py)                                    *)

Clamp255(x) == Max(0, Min(255, x))

\* interpolate_colors(color1, color2, factor) on two RGB lists.
InterpolateColors(color1, color2, factor) ==
    [i \in 1..3 |->
        Clamp255(PyInt(color1[i] * factor.d + (color2[i] - color1[i]) * factor.n,
                       factor.d))]

\* apply_brightness(color, brightness).
ApplyBrightness(color, b) ==
    [i \in 1..3 |-> Clamp255(PyInt(color[i] * b.n, b.d))]

\* blend_colors([c1, c2], [w1, w2]).
BlendColors(c1, c2, w1, w2) ==
    LET total_weight == FracAdd(w1, w2)
    IN  IF total_weight.n = 0 THEN <<0, 0, 0>>
        ELSE
        LET n1 == FracDiv(w1, total_weight)
            n2 == FracDiv(w2, total_weight)
        IN  [i \in 1..3 |->
                LET sum == FracAdd(FracMul(Frac(c1[i], 1), n1),
                                   FracMul(Frac(c2[i], 1), n2))
                IN  Clamp255(PyInt(sum.n, sum.d))]

---------------------------------------------------------------------------
(* LightSegment.get_light_data                                             *)

\* Python values handed over as the palette argument: a str or a list of
\* RGB lists.
PyStr(name) == [kind |-> "str", str |-> name, list |-> <<>>]

PyList(items) == [kind |-> "list", str |-> "", list |-> items]

\* len(palette)
PyLen(v) == IF v.kind = "str" THEN Len(v.str) ELSE Len(v.list)

\* palette[idx] for 0 <= idx < len(palette): an RGB list, or, of a str, a
\* one-character str.
PyItem(v, idx) ==
    IF v.kind = "str" THEN [kind |-> "str", rgb |-> <<0, 0, 0>>]
    ELSE [kind |-> "rgb", rgb |-> v.list[idx + 1]]

\* base_rgb: the four stops looked up in the palette argument.
BaseRgb(seg, palette) ==
    [k \in 1..4 |->
        IF 0 <= seg.color[k] /\ seg.color[k] < PyLen(palette)
        THEN PyItem(palette, seg.color[k])
        ELSE [kind |-> "rgb", rgb |-> <<255, 0, 0>>]]

\* The two stops and the factor t of the LED led_idx (the three buckets).
LedBucket(seg, led_idx) ==
    LET L0  == seg.length[1] * PosDen
        L1  == seg.length[2] * PosDen
        L2  == seg.length[3] * PosDen
        \* max(0, min(led_idx - current_position, total - 1e-9)): a LED of
        \* range(start_led, end_led + 1) lies below total on the position grid
        raw == led_idx * PosDen - seg.current_position
        rel == Max(0, raw)
        t   == IF rel < L0
               THEN (IF L0 > 0 THEN Frac(rel, L0) ELSE Frac(0, 1))
               ELSE IF rel < L0 + L1
               THEN (IF L1 > 0 THEN Frac(rel - L0, L1) ELSE Frac(0, 1))
               ELSE (IF L2 > 0 THEN Frac(rel - L0 - L1, L2) ELSE Frac(0, 1))
    IN  [ first |-> IF rel < L0 THEN 1 ELSE IF rel < L0 + L1 THEN 2 ELSE 3,
          t     |-> FracClamp01(t) ]

\* The body of the loop over the LEDs for led_idx; interpolate_colors
\* subtracts the channels of the two stops, a TypeError when a stop is a str.
LedSample(seg, palette, led_idx) ==
    LET b   == LedBucket(seg, led_idx)
        c1  == BaseRgb(seg, palette)[b.first]
        c2  == BaseRgb(seg, palette)[b.first + 1]
        tr1 == seg.transparency[b.first]
        tr2 == seg.transparency[b.first + 1]
    IN  IF c1.kind = "str" \/ c2.kind = "str"
        THEN [error |-> "TypeError", color |-> <<0, 0, 0>>, alpha |-> Frac(0, 1)]
        ELSE [error |-> "none",
              color |-> ApplyBrightness(InterpolateColors(c1.rgb, c2.rgb, b.t),
                                        ApplyDimming(seg)),
              alpha |-> FracAdd(tr1, FracMul(FracSub(tr2, tr1), b.t))]

NoLightData(error) ==
    [error |-> error, intKeys |-> {}, strKeys |-> {},
     item |-> [i \in {} |-> 0], str |-> [k \in {} |-> 0]]

\* LightSegment.get_light_data(palette): a dict keyed by the LED indices
\* (intKeys); it is never given a str key (strKeys).
GetLightData(seg, palette) ==
    LET total_segment_length == Sum3(seg.length)
        start_led == PyFloor(seg.current_position, PosDen)
        end_led   == PyFloor(seg.current_position
                                 + total_segment_length * PosDen - 1, PosDen)
    IN  IF total_segment_length <= 0 THEN NoLightData("none")
        ELSE IF \E i \in start_led..end_led :
                    LedSample(seg, palette, i).error # "none"
        THEN NoLightData("TypeError")
        ELSE [error   |-> "none",
              intKeys |-> start_led..end_led,
              strKeys |-> {},
              item    |-> [i \in start_led..end_led |->
                              LedSample(seg, palette, i)],
              str     |-> [k \in {} |-> 0]]

---------------------------------------------------------------------------
(* LightEffect                                                             *)

\* One step of the overlap handling of get_led_output on one LED: px is
\* (led_colors[led_idx], led_transparency[led_idx]).
CompositeStep(px, led_color, current_transparency) ==
    IF px.color = <<0, 0, 0>>
    THEN [color |-> led_color, alpha |-> current_transparency]
    ELSE
    LET weight_current == px.alpha
        weight_new     == FracMul(current_transparency,
                                  FracSub(Frac(1, 1), px.alpha))
        total_weight   == FracAdd(weight_current, weight_new)
    IN  [ color |-> IF total_weight.n > 0
                    THEN BlendColors(px.color, led_color,
                                     FracDiv(weight_current, total_weight),
                                     FracDiv(weight_new, total_weight))
                    ELSE px.color,
          alpha |-> FracClamp01(FracAdd(px.alpha,
                        FracMul(current_transparency,
                                FracSub(Frac(1, 1), px.alpha)))) ]

\* The colour and transparency get_led_output derives for led_idx from the
\* 'positions', 'colors' and 'transparency' entries of a segment's data.
LedOfData(d, led_idx) ==
    LET positions == d["positions"]
        colors    == d["colors"]
        x         == led_idx * PosDen
        k         == IF x <= positions[2] THEN 1
                     ELSE IF x <= positions[3] THEN 2 ELSE 3
        rel_pos   == Frac(x - positions[k],
                          Max(PosDen, positions[k + 1] - positions[k]))
    IN  [ color |-> InterpolateColors(colors[k], colors[k + 1], rel_pos),
          alpha |-> d["transparency"][k] ]

\* The loop of get_led_output over the LEDs a segment covers.
CompositeSegment(led_count, d, buf) ==
    LET start_pos == Max(0, PyInt(d["positions"][1], PosDen))
        end_pos   == Min(led_count - 1, PyInt(d["positions"][4], PosDen))
    IN  [buf EXCEPT !.px =
            [i \in 1..led_count |->
                IF start_pos <= i - 1 /\ i - 1 <= end_pos
                THEN CompositeStep(buf.px[i], LedOfData(d, i - 1).color,
                                   LedOfData(d, i - 1).alpha)
                ELSE buf.px[i]]]

\* The body of the loop of get_led_output over the segments: the data comes
\* from get_light_data(self.current_palette), the palette NAME, and is then
\* indexed with 'brightness', a key get_light_data never sets.
RenderSegment(e, seg, buf) ==
    LET segment_data == GetLightData(seg, PyStr(e.current_palette))
    IN  IF segment_data.error # "none"
        THEN [buf EXCEPT !.error = segment_data.error]
        ELSE IF "brightness" \notin segment_data.strKeys
        THEN [buf EXCEPT !.error = "KeyError"]
        ELSE IF segment_data.str["brightness"].n <= 0 THEN buf
        ELSE CompositeSegment(e.led_count, segment_data.str, buf)

\* sorted(...): the keys in ascending order.
RECURSIVE Sorted(_)
Sorted(S) ==
    IF S = {} THEN <<>>
    ELSE LET least == CHOOSE x \in S : \A y \in S : x <= y
         IN  <<least>> \o Sorted(S \ {least})

RECURSIVE RenderSegments(_, _, _)
RenderSegments(e, ids, buf) ==
    IF ids = <<>> \/ buf.error # "none" THEN buf
    ELSE RenderSegments(e, Tail(ids),
                        RenderSegment(e, e.segments[Head(ids)], buf))

\* LightEffect.get_led_output: the returned led_colors, or the exception.
GetLedOutput(e) ==
    LET buf0 == [ error |-> "none",
                  px    |-> [i \in 1..e.led_count |->
                                [color |-> <<0, 0, 0>>, alpha |-> Frac(1, 1)]] ]
        buf  == RenderSegments(e, Sorted(DOMAIN e.segments), buf0)
    IN  [ valid |-> TRUE,
          error |-> buf.error,
          leds  |-> IF buf.error = "none"
                    THEN [i \in 1..e.led_count |-> buf.px[i].color]
                    ELSE <<>> ]

NotRendered == [valid |-> FALSE, error |-> "none", leds |-> <<>>]

\* LightEffect.__init__
NewEffect(led_count, fps) ==
    [ led_count       |-> led_count,
      fps             |-> fps,
      time            |-> 0,
      current_palette |-> "A",
      segments        |-> [i \in {} |-> 0] ]

\* LightEffect.add_segment
AddSegment(e, segment_ID, seg) ==
    [e EXCEPT !.segments =
        [i \in DOMAIN e.segments \cup {segment_ID} |->
            IF i = segment_ID THEN seg ELSE e.segments[i]]]

\* LightEffect.remove_segment
RemoveSegment(e, segment_ID) ==
    IF segment_ID \in DOMAIN e.segments
    THEN [e EXCEPT !.segments =
            [i \in DOMAIN e.segments \ {segment_ID} |-> e.segments[i]]]
    ELSE e

\* LightEffect.set_palette
EffectSetPalette(e, palette_id) ==
    [e EXCEPT !.current_palette = palette_id,
              !.segments = [i \in DOMAIN e.segments |->
                  [e.segments[i] EXCEPT
                      !.rgb_color = CalculateRgb(e.segments[i].color, palette_id)]]]

\* LightEffect.update_all
UpdateAll(e) ==
    LET t == e.time + TimeStep(e.fps)
    IN  [e EXCEPT !.time = t,
                  !.segments = [i \in DOMAIN e.segments |->
                      UpdatePosition([e.segments[i] EXCEPT !.time = t], e.fps)]]

\* Number of LEDs of the modelled strip.
LedCount == 10

\* Cap of the effect's time, in 1/10 s.
MaxEffTime == 2

SegIdSet == {1, 2}

Half == Frac(1, 2)

EffSegment(color, transparency, length, initial_position) ==
    NewSegment(color, transparency, length, 15, <<-5, 14>>, initial_position,
               TRUE, DefaultDimmerTime, RatioDen)

EffSegSet ==
    { EffSegment(color, transparency, <<1, 0, 0>>, 0) :
        color \in {<<0, 0, 0, 0>>, <<2, 2, 2, 2>>, <<7, 7, 7, 7>>},
        transparency \in {<<Half, Half, Half, Half>>, DefaultTransparency} }
    \cup
    { EffSegment(<<0, 1, 2, 3>>, DefaultTransparency, length, initial_position) :
        length \in {<<2, 2, 2>>, <<0, 0, 0>>},
        initial_position \in {-3, 8} }

EffInit ==
    /\ effect = NewEffect(LedCount, 10)
    /\ ledOutput = NotRendered

EffAddSegment ==
    \E segment_ID \in SegIdSet, seg \in EffSegSet :
        /\ effect' = AddSegment(effect, segment_ID, seg)
        /\ ledOutput' = NotRendered
        /\ EffFrame

EffRemoveSegment ==
    \E segment_ID \in SegIdSet :
        /\ effect' = RemoveSegment(effect, segment_ID)
        /\ ledOutput' = NotRendered
        /\ EffFrame

EffSetPalette ==
    \E palette_id \in {"A", "B"} :
        /\ effect' = EffectSetPalette(effect, palette_id)
        /\ ledOutput' = NotRendered
        /\ EffFrame

EffUpdateAll ==
    /\ effect.time + TimeStep(effect.fps) <= MaxEffTime * 100 * MsDen
    /\ effect' = UpdateAll(effect)
    /\ ledOutput' = NotRendered
    /\ EffFrame

EffRender ==
    /\ ledOutput' = GetLedOutput(effect)
    /\ UNCHANGED effect
    /\ EffFrame

EffNext ==
    \/ EffAddSegment
    \/ EffRemoveSegment
    \/ EffSetPalette
    \/ EffUpdateAll
    \/ EffRender

EffIdle == EffInit

---------------------------------------------------------------------------
(* One LED under successive compositing steps                              *)

\* Most compositing steps applied to the LED (segments overlapping it).
MaxLayers == 3

SampleColors == {<<0, 0, 0>>, <<255, 0, 0>>, <<0, 0, 255>>, <<200, 255, 200>>}

SampleAlphas == {Frac(0, 1), Half, Frac(1, 1)}

NoStep ==
    [layers |-> 0, before |-> [color |-> <<0, 0, 0>>, alpha |-> Frac(1, 1)],
     color |-> <<0, 0, 0>>, alpha |-> Frac(0, 1)]

\* led_colors[i] = [0, 0, 0], led_transparency[i] = 1.0
CompInit ==
    /\ pixel = [color |-> <<0, 0, 0>>, alpha |-> Frac(1, 1)]
    /\ compIn = NoStep

\* The next overlapping segment's sample is composited onto the LED.
CompStep ==
    \E led_color \in SampleColors, current_transparency \in SampleAlphas :
        /\ compIn.layers < MaxLayers
        /\ pixel' = CompositeStep(pixel, led_color, current_transparency)
        /\ compIn' = [layers |-> compIn.layers + 1, before |-> pixel,
                      color |-> led_color, alpha |-> current_transparency]
        /\ CompFrame

CompNext == CompStep

CompIdle == CompInit

---------------------------------------------------------------------------
(* LightScene                                                              *)

\* Python's None where an effect id is expected (ids are never negative).
None == -1

\* Python's None where a palette name is expected.
NonePalette == "None"

\* LightScene.__init__; effect_order is the key order of the effects dict.
NewScene ==
    [ effects                   |-> [i \in {} |-> 0],
      effect_order              |-> <<>>,
      current_effect_ID         |-> None,
      palettes                  |-> DOMAIN DEFAULT_COLOR_PALETTES,
      current_palette           |-> "A",
      next_effect_idx           |-> None,
      next_palette_idx          |-> NonePalette,
      fade_in_time              |-> 0,
      fade_out_time             |-> 0,
      transition_start_time     |-> 0,
      effect_transition_active  |-> FALSE,
      palette_transition_active |-> FALSE ]

\* LightScene.add_effect
AddEffect(sc, effect_ID, e) ==
    [sc EXCEPT
        !.effects = [i \in DOMAIN sc.effects \cup {effect_ID} |->
                        IF i = effect_ID
                        THEN [e EXCEPT !.current_palette = sc.current_palette]
                        ELSE sc.effects[i]],
        !.effect_order = IF effect_ID \in DOMAIN sc.effects THEN @
                         ELSE Append(@, effect_ID),
        !.current_effect_ID = IF @ = None THEN effect_ID ELSE @]

\* del d[key] on the key order of a dict.
DelKey(order, key) == SelectSeq(order, LAMBDA k : k # key)

\* LightScene.remove_effect
RemoveEffect(sc, effect_ID) ==
    IF effect_ID \notin DOMAIN sc.effects THEN sc
    ELSE
    LET order == DelKey(sc.effect_order, effect_ID)
    IN  [sc EXCEPT
            !.effects = [i \in DOMAIN sc.effects \ {effect_ID} |-> sc.effects[i]],
            !.effect_order = order,
            !.current_effect_ID =
                IF effect_ID # @ THEN @
                ELSE IF order # <<>> THEN order[1] ELSE None]

\* LightScene.switch_effect
SwitchEffect(sc, effect_ID) ==
    IF effect_ID \in DOMAIN sc.effects
    THEN [sc EXCEPT !.current_effect_ID = effect_ID]
    ELSE sc

\* LightScene.set_palette without the loop over the effects.
SceneSetPalette_SceneOnly(sc, palette_id) ==
    IF palette_id \in sc.palettes
    THEN [sc EXCEPT !.current_palette = palette_id]
    ELSE sc

\* LightScene.set_palette
SceneSetPalette(sc, palette_id) ==
    IF palette_id \in sc.palettes
    THEN [sc EXCEPT !.current_palette = palette_id,
                    !.effects = [i \in DOMAIN sc.effects |->
                                    EffectSetPalette(sc.effects[i], palette_id)]]
    ELSE sc

\* The keys of a palette table given by its key order.
Keys(table) == {table[i] : i \in 1..Len(table)}

\* LightScene.update_palette; only the keys of the table are modelled.
UpdatePalette(sc, palette_id) ==
    IF palette_id \in sc.palettes /\ palette_id = sc.current_palette
    THEN SceneSetPalette(sc, palette_id)
    ELSE sc

\* LightScene.update_all_palettes; new_palettes is the key order of the table.
UpdateAllPalettes(sc, new_palettes) ==
    LET a == [sc EXCEPT !.palettes = Keys(new_palettes)]
    IN  IF a.current_palette \in a.palettes
        THEN SceneSetPalette(a, a.current_palette)
        ELSE IF new_palettes # <<>>
        THEN SceneSetPalette([a EXCEPT !.current_palette = new_palettes[1]],
                             new_palettes[1])
        ELSE a

\* LightScene.load_palettes_from_json; data is the parsed file: its
\* "palettes" and "current_palette" entries, each present or not.
LoadPalettesFromJson(sc, data) ==
    LET a == IF data.has_palettes
             THEN [sc EXCEPT !.palettes = Keys(data.palettes)] ELSE sc
    IN  IF data.has_current_palette
        THEN SceneSetPalette(a, data.current_palette)
        ELSE a

\* LightScene.set_transition_params; times in 1/MsDen ms.
SetTransitionParams(sc, next_effect_idx, next_palette_idx, fade_in_time, fade_out_time) ==
    [sc EXCEPT !.next_effect_idx           = next_effect_idx,
               !.next_palette_idx          = next_palette_idx,
               !.fade_in_time              = fade_in_time,
               !.fade_out_time             = fade_out_time,
               !.transition_start_time     = 0,
               !.effect_transition_active  = next_effect_idx # None,
               !.palette_transition_active = next_palette_idx # NonePalette]

\* 1.0 / self.effects[self.current_effect_ID].fps
SceneStep(sc) == TimeStep(sc.effects[sc.current_effect_ID].fps)

\* LightScene.update, the block guarded by effect_transition_active.
EffectTransition(sc) ==
    IF ~sc.effect_transition_active THEN sc
    ELSE
    LET t == sc.transition_start_time + SceneStep(sc)
    IN  IF t >= sc.fade_out_time + sc.fade_in_time
        THEN [ (IF sc.next_effect_idx # None
                THEN SwitchEffect(sc, sc.next_effect_idx) ELSE sc)
               EXCEPT !.effect_transition_active = FALSE,
                      !.next_effect_idx = None,
                      !.transition_start_time = 0 ]
        ELSE [sc EXCEPT !.transition_start_time = t]

\* LightScene.update, the block guarded by palette_transition_active.
PaletteTransition(sc) ==
    IF ~sc.palette_transition_active THEN sc
    ELSE
    LET t == sc.transition_start_time + SceneStep(sc)
    IN  IF t >= sc.fade_out_time + sc.fade_in_time
        THEN [ (IF sc.next_palette_idx # NonePalette
                THEN SceneSetPalette(sc, sc.next_palette_idx) ELSE sc)
               EXCEPT !.palette_transition_active = FALSE,
                      !.next_palette_idx = NonePalette,
                      !.transition_start_time = 0 ]
        ELSE [sc EXCEPT !.transition_start_time = t]

\* self.effects[self.current_effect_ID] of a transition block is a KeyError
\* when the scene has no current effect.
UpdateRaises(sc) ==
    /\ sc.effect_transition_active \/ sc.palette_transition_active
    /\ sc.current_effect_ID \notin DOMAIN sc.effects

\* LightScene.update when it does not raise.
SceneUpdateAll(sc) ==
    LET b == PaletteTransition(EffectTransition(sc))
    IN  IF b.current_effect_ID # None /\ b.current_effect_ID \in DOMAIN b.effects
        THEN [b EXCEPT !.effects[b.current_effect_ID] = UpdateAll(@)]
        ELSE b

\* Most update() calls on the scene.
MaxSceneUpdates == 4

EffectIdSet == {1, 2}

SceneFpsSet == {4, 8}

NextEffectSet == {None, 1, 2}

NextPaletteSet == {NonePalette, "B", "Z"}

FadeSet == {0, 250}

SceneInit ==
    /\ scene = NewScene
    /\ sceneLog = [op |-> "init", raised |-> FALSE, before |-> <<>>,
                   updates |-> 0, both |-> FALSE, due |-> 0]

SceneAddEffect ==
    \E effect_ID \in EffectIdSet, fps \in SceneFpsSet :
        /\ scene' = AddEffect(scene, effect_ID, NewEffect(LedCount, fps))
        /\ sceneLog' = [sceneLog EXCEPT !.op = "add_effect", !.raised = FALSE,
                                        !.before = <<>>]
        /\ SceneFrame

SceneSetTransitionParams ==
    \E next_effect_idx \in NextEffectSet, next_palette_idx \in NextPaletteSet,
       fade_in_time \in FadeSet, fade_out_time \in FadeSet :
        /\ scene' = SetTransitionParams(scene, next_effect_idx, next_palette_idx,
                                        fade_in_time, fade_out_time)
        /\ sceneLog' = [sceneLog EXCEPT
                            !.op = "set_transition_params", !.raised = FALSE,
                            !.before = <<>>, !.due = 0,
                            !.both = next_effect_idx # None
                                        /\ next_palette_idx # NonePalette]
        /\ SceneFrame

\* before holds the scene an update() call found; due is the time the
\* update() calls since set_transition_params stand for at 1/fps each.
SceneUpdate ==
    /\ sceneLog.updates < MaxSceneUpdates
    /\ IF UpdateRaises(scene)
       THEN /\ scene' = scene
            /\ sceneLog' = [sceneLog EXCEPT !.op = "update", !.raised = TRUE,
                                !.before = <<scene>>, !.updates = @ + 1]
       ELSE /\ scene' = SceneUpdateAll(scene)
            /\ sceneLog' = [sceneLog EXCEPT !.op = "update", !.raised = FALSE,
                                !.before = <<scene>>, !.updates = @ + 1,
                                !.due = IF scene.current_effect_ID = None THEN @
                                        ELSE @ + SceneStep(scene)]
    /\ SceneFrame

PaletteIdSet == {"A", "B", "Z"}

PaletteTableSet == {<<>>, <<"C", "B">>, <<"A", "B", "C", "D", "E">>}

PaletteFileSet ==
    { [has_palettes |-> hp, palettes |-> <<"B">>,
       has_current_palette |-> hc, current_palette |-> c] :
        hp \in BOOLEAN, hc \in BOOLEAN, c \in {"B", "Z"} }

SceneOp(name) ==
    [sceneLog EXCEPT !.op = name, !.raised = FALSE, !.before = <<>>]

SceneRemoveEffect ==
    \E effect_ID \in EffectIdSet :
        /\ scene' = RemoveEffect(scene, effect_ID)
        /\ sceneLog' = SceneOp("remove_effect")
        /\ SceneFrame

SceneSwitchEffect ==
    \E effect_ID \in EffectIdSet :
        /\ scene' = SwitchEffect(scene, effect_ID)
        /\ sceneLog' = SceneOp("switch_effect")
        /\ SceneFrame

SceneSetPaletteTo ==
    \E palette_id \in PaletteIdSet :
        /\ scene' = SceneSetPalette(scene, palette_id)
        /\ sceneLog' = SceneOp("set_palette")
        /\ SceneFrame

SceneUpdatePalette ==
    \E palette_id \in PaletteIdSet :
        /\ scene' = UpdatePalette(scene, palette_id)
        /\ sceneLog' = SceneOp("update_palette")
        /\ SceneFrame

SceneUpdateAllPalettes ==
    \E new_palettes \in PaletteTableSet :
        /\ scene' = UpdateAllPalettes(scene, new_palettes)
        /\ sceneLog' = SceneOp("update_all_palettes")
        /\ SceneFrame

SceneLoadPalettes ==
    \E data \in PaletteFileSet :
        /\ scene' = LoadPalettesFromJson(scene, data)
        /\ sceneLog' = SceneOp("load_palettes_from_json")
        /\ SceneFrame

\* The scene under transition commands and ticks.
SceneNext ==
    \/ SceneAddEffect
    \/ SceneSetTransitionParams
    \/ SceneUpdate

\* The scene under changes of its effect and palette tables and ticks.
SceneTableNext ==
    \/ SceneAddEffect
    \/ SceneRemoveEffect
    \/ SceneSwitchEffect
    \/ SceneSetPaletteTo
    \/ SceneUpdatePalette
    \/ SceneUpdateAllPalettes
    \/ SceneLoadPalettes
    \/ SceneUpdate

\* update() called again and again while a transition is pending; a call
\* that raises leaves the scene as it found it.
SceneRepeatUpdate ==
    /\ scene.effect_transition_active \/ scene.palette_transition_active
    /\ IF UpdateRaises(scene)
       THEN /\ scene' = scene
            /\ sceneLog' = [sceneLog EXCEPT !.op = "update", !.raised = TRUE,
                                !.before = <<scene>>]
       ELSE /\ scene' = SceneUpdateAll(scene)
            /\ sceneLog' = [sceneLog EXCEPT !.op = "update", !.raised = FALSE,
                                !.before = <<scene>>, !.updates = @ + 1,
                                !.due = @ + SceneStep(scene)]
    /\ SceneFrame

\* A command that begins a transition, while the scene is young enough.
SceneBeginTransition ==
    /\ sceneLog.updates < MaxSceneUpdates
    /\ SceneSetTransitionParams

\* Transitions begun by commands, effects coming and going, and the ticks
\* that carry the transitions on.
SceneLiveNext ==
    \/ SceneAddEffect
    \/ SceneRemoveEffect
    \/ SceneBeginTransition
    \/ SceneRepeatUpdate

SceneIdle == SceneInit

---------------------------------------------------------------------------
(* SceneManager                                                            *)

\* SceneManager.__init__; scene_order is the key order of the scenes dict.
NewManager ==
    [ scenes                |-> [i \in {} |-> 0],
      scene_order           |-> <<>>,
      current_scene         |-> None,
      next_scene_idx        |-> None,
      next_effect_idx       |-> None,
      next_palette_idx      |-> NonePalette,
      fade_in_time          |-> 0,
      fade_out_time         |-> 0,
      transition_start_time |-> 0,
      is_transitioning      |-> FALSE,
      transition_opacity    |-> Frac(1, 1) ]

\* SceneManager.add_scene
AddScene(m, scene_ID, sc) ==
    [m EXCEPT
        !.scenes = [i \in DOMAIN m.scenes \cup {scene_ID} |->
                       IF i = scene_ID THEN sc ELSE m.scenes[i]],
        !.scene_order = IF scene_ID \in DOMAIN m.scenes THEN @
                        ELSE Append(@, scene_ID),
        !.current_scene = IF @ = None THEN scene_ID ELSE @]

\* SceneManager.remove_scene
RemoveScene(m, scene_ID) ==
    IF scene_ID \notin DOMAIN m.scenes THEN m
    ELSE
    LET other_scenes == DelKey(m.scene_order, scene_ID)
    IN  [m EXCEPT
            !.scenes = [i \in DOMAIN m.scenes \ {scene_ID} |-> m.scenes[i]],
            !.scene_order = other_scenes,
            !.current_scene =
                IF scene_ID # @ THEN @
                ELSE IF Len(m.scene_order) > 1 THEN other_scenes[1] ELSE None]

\* SceneManager.switch_scene
SwitchScene(m, scene_ID) ==
    IF scene_ID \notin DOMAIN m.scenes THEN m
    ELSE IF m.fade_in_time > 0 \/ m.fade_out_time > 0
    THEN [m EXCEPT !.next_scene_idx = scene_ID,
                   !.is_transitioning = TRUE,
                   !.transition_start_time = 0,
                   !.transition_opacity = Frac(0, 1)]
    ELSE [m EXCEPT !.current_scene = scene_ID,
                   !.next_scene_idx = None]

\* SceneManager.set_transition_params; times in 1/MsDen ms.
MgrSetTransitionParams(m, next_scene_idx, next_effect_idx, next_palette_idx, fade_in_time, fade_out_time) ==
    LET a == [m EXCEPT !.next_scene_idx   = next_scene_idx,
                       !.next_effect_idx  = next_effect_idx,
                       !.next_palette_idx = next_palette_idx,
                       !.fade_in_time     = Max(0, fade_in_time),
                       !.fade_out_time    = Max(0, fade_out_time)]
    IN  IF next_scene_idx # None \/ next_effect_idx # None
              \/ next_palette_idx # NonePalette
        THEN [a EXCEPT !.is_transitioning = TRUE,
                       !.transition_start_time = 0,
                       !.transition_opacity = Frac(0, 1)]
        ELSE a

\* The 0.1 s of SceneManager.update during which the opacity is 0.
MgrHold == 100 * MsDen

\* The 0.03 s SceneManager.update adds when the scene has no current effect.
MgrFallbackStep == 30 * MsDen

\* What SceneManager.update adds to transition_start_time.
MgrStep(m) ==
    LET current_scene == m.scenes[m.current_scene]
    IN  IF current_scene.current_effect_ID \in DOMAIN current_scene.effects
        THEN SceneStep(current_scene)
        ELSE MgrFallbackStep

\* self.transition_start_time += ...
MgrAdvance(m, step) == m.transition_start_time + step

MgrPhase_HoldFirst(t, fade_out_time, fade_in_time) ==
    IF t < fade_out_time THEN "fade_out"
    ELSE IF t <= fade_out_time + MgrHold THEN "hold"
    ELSE IF t <= fade_out_time + MgrHold + fade_in_time THEN "fade_in"
    ELSE "done"

\* The branch of SceneManager.update taken at transition_start_time = t.
MgrPhase(t, fade_out_time, fade_in_time) ==
    IF t <= fade_out_time THEN "fade_out"
    ELSE IF t <= fade_out_time + MgrHold THEN "hold"
    ELSE IF t <= fade_out_time + MgrHold + fade_in_time THEN "fade_in"
    ELSE "done"

\* The swap of SceneManager.update: the scene, then on the (new) current
\* scene the effect and the palette (str palette names only).
MgrSwap(m) ==
    LET a  == IF m.next_scene_idx # None /\ m.next_scene_idx \in DOMAIN m.scenes
              THEN [m EXCEPT !.current_scene = m.next_scene_idx] ELSE m
        s0 == a.scenes[a.current_scene]
        s1 == IF a.next_effect_idx # None /\ a.next_effect_idx \in DOMAIN s0.effects
              THEN SwitchEffect(s0, a.next_effect_idx) ELSE s0
        s2 == IF a.next_palette_idx # NonePalette /\ a.next_palette_idx \in s1.palettes
              THEN SceneSetPalette(s1, a.next_palette_idx) ELSE s1
    IN  [a EXCEPT !.scenes[a.current_scene] = s2]

\* SceneManager.update, the block guarded by is_transitioning; error names
\* the exception a division raises.
MgrTransition(m) ==
    LET t     == MgrAdvance(m, MgrStep(m))
        a     == [m EXCEPT !.transition_start_time = t]
        phase == MgrPhase(t, m.fade_out_time, m.fade_in_time)
    IN  IF phase = "fade_out"
        THEN IF m.fade_out_time = 0
             THEN [error |-> "ZeroDivisionError", m |-> a]
             ELSE [error |-> "none",
                   m |-> [a EXCEPT !.transition_opacity =
                            FracSub(Frac(1, 1), Frac(t, m.fade_out_time))]]
        ELSE IF phase = "hold"
        THEN [error |-> "none",
              m |-> IF t >= m.fade_out_time
                    THEN MgrSwap([a EXCEPT !.transition_opacity = Frac(0, 1)])
                    ELSE [a EXCEPT !.transition_opacity = Frac(0, 1)]]
        ELSE IF phase = "fade_in"
        THEN IF m.fade_in_time = 0
             THEN [error |-> "ZeroDivisionError", m |-> a]
             ELSE [error |-> "none",
                   m |-> [a EXCEPT !.transition_opacity =
                            Frac(t - (m.fade_out_time + MgrHold), m.fade_in_time)]]
        ELSE [error |-> "none",
              m |-> [a EXCEPT !.transition_opacity = Frac(1, 1),
                              !.is_transitioning = FALSE,
                              !.next_scene_idx = None,
                              !.next_effect_idx = None,
                              !.next_palette_idx = NonePalette]]

\* SceneManager.update returns at once without a current scene.
MgrReturnsEarly(m) ==
    m.current_scene = None \/ m.current_scene \notin DOMAIN m.scenes

\* SceneManager.update past the early return: the transition block, then
\* current_scene.update().
MgrUpdateAll(m) ==
    LET r == IF m.is_transitioning THEN MgrTransition(m)
             ELSE [error |-> "none", m |-> m]
        a == r.m
    IN  IF r.error # "none" THEN r
        ELSE IF UpdateRaises(a.scenes[a.current_scene])
        THEN [error |-> "KeyError", m |-> a]
        ELSE [error |-> "none",
              m |-> [a EXCEPT !.scenes[a.current_scene] = SceneUpdateAll(@)]]

\* Most update() calls on the manager between commands while it is idle.
MaxMgrUpdates == 1

\* Most set_transition_params calls on the manager.
MaxMgrSetTransitions == 1

\* Most switch_scene calls on the manager.
MaxMgrSwitches == 1

\* Most add_scene and remove_scene calls on the manager.
MaxMgrSceneOps == 2

SceneIdSet == {1, 2}

\* A scene whose only effect runs at fps.
MgrScene(fps) == AddEffect(NewScene, 1, NewEffect(LedCount, fps))

\* scene_ID and scene of the add_scene calls; the last scene has no effect.
MgrAddSet ==
    { <<1, MgrScene(10)>>, <<1, MgrScene(5)>>, <<2, MgrScene(10)>>,
      <<2, NewScene>> }

\* next_scene_idx, next_effect_idx, next_palette_idx of a command.
MgrTargetSet ==
    { <<None, None, NonePalette>>, <<2, None, NonePalette>>,
      <<None, None, "B">> }

\* fade_in_time, fade_out_time of a command.
MgrFadeSet == {<<400, 400>>, <<-400, 0>>}

NoTargets == <<None, None, NonePalette>>

MgrInit ==
    /\ manager = NewManager
    /\ mgrLog = [op |-> "init", error |-> "none", returned |-> FALSE,
                 updates |-> 0, cmds |-> 0, sets |-> 0, switches |-> 0,
                 scene_ops |-> 0, cmd |-> NoTargets, from |-> None,
                 target |-> None, swapped |-> FALSE, used |-> NoTargets,
                 removed_last |-> FALSE, undisturbed |-> FALSE]

MgrOp(name) ==
    [mgrLog EXCEPT !.op = name, !.error = "none", !.returned = FALSE,
                   !.swapped = FALSE, !.used = NoTargets,
                   !.removed_last = FALSE]

MgrAddScene ==
    \E add \in MgrAddSet :
        /\ mgrLog.scene_ops < MaxMgrSceneOps
        /\ manager' = AddScene(manager, add[1], add[2])
        /\ mgrLog' = [MgrOp("add_scene") EXCEPT !.scene_ops = @ + 1,
                                                !.undisturbed = FALSE]
        /\ MgrFrame

\* removed_last tells that the scene removed was the only one; target is
\* the scene the pending command asked for, while it exists; undisturbed
\* tells that no scene was added or removed since the last command.
MgrRemoveScene ==
    \E scene_ID \in SceneIdSet :
        /\ mgrLog.scene_ops < MaxMgrSceneOps
        /\ manager' = RemoveScene(manager, scene_ID)
        /\ mgrLog' = [MgrOp("remove_scene") EXCEPT
                        !.scene_ops = @ + 1,
                        !.undisturbed = FALSE,
                        !.removed_last = DOMAIN manager.scenes = {scene_ID},
                        !.target = IF @ = scene_ID THEN None ELSE @]
        /\ MgrFrame

MgrSwitchScene ==
    \E scene_ID \in SceneIdSet :
        /\ mgrLog.switches < MaxMgrSwitches
        /\ manager' = SwitchScene(manager, scene_ID)
        /\ mgrLog' = [MgrOp("switch_scene") EXCEPT
                        !.switches = @ + 1,
                        !.cmds = @ + 1, !.updates = 0, !.undisturbed = TRUE,
                        !.cmd = <<scene_ID, None, NonePalette>>,
                        !.from = manager.current_scene,
                        !.target = IF scene_ID \in DOMAIN manager.scenes
                                      /\ manager'.next_scene_idx = scene_ID
                                   THEN scene_ID ELSE None]
        /\ MgrFrame

MgrSetTransition ==
    \E targets \in MgrTargetSet, fades \in MgrFadeSet :
        /\ mgrLog.sets < MaxMgrSetTransitions
        /\ manager' = MgrSetTransitionParams(manager, targets[1], targets[2],
                          targets[3], fades[1], fades[2])
        /\ mgrLog' = [MgrOp("set_transition_params") EXCEPT
                        !.sets = @ + 1,
                        !.cmds = @ + 1, !.updates = 0, !.undisturbed = TRUE,
                        !.cmd = targets,
                        !.from = manager.current_scene,
                        !.target = IF targets[1] \in DOMAIN manager.scenes
                                   THEN targets[1] ELSE None]
        /\ MgrFrame

\* One update() call; while no transition runs the calls are capped.
MgrUpdate ==
    /\ manager.is_transitioning \/ mgrLog.updates < MaxMgrUpdates
    /\ IF MgrReturnsEarly(manager)
       THEN /\ manager' = manager
            /\ mgrLog' = [MgrOp("update") EXCEPT !.returned = TRUE]
       ELSE LET r       == MgrUpdateAll(manager)
                swapped == manager.is_transitioning /\ r.error = "none"
                              /\ MgrPhase(r.m.transition_start_time,
                                          manager.fade_out_time,
                                          manager.fade_in_time) = "hold"
            IN  /\ manager' = r.m
                /\ mgrLog' = [MgrOp("update") EXCEPT
                      !.error = r.error,
                      !.updates = @ + 1,
                      !.swapped = swapped,
                      !.used = IF swapped
                               THEN <<manager.next_scene_idx,
                                      manager.next_effect_idx,
                                      manager.next_palette_idx>>
                               ELSE NoTargets]
    /\ MgrFrame

MgrNext ==
    \/ MgrAddScene
    \/ MgrRemoveScene
    \/ MgrSwitchScene
    \/ MgrSetTransition
    \/ MgrUpdate

MgrIdle == MgrInit

---------------------------------------------------------------------------
(* Python floats (IEEE binary64) of the manager's transition, exactly      *)
(*                                                                         *)
(* A non-negative float is held as the integer x * 2^FScale, written in    *)
(* base FBase with FLimbs digits, least significant first.  Sums,          *)
(* differences and quotients are computed exactly and then rounded to      *)
(* FPrecision significant bits, ties to even, as the hardware does.        *)

\* Bits of the significand of a binary64 float.
FPrecision == 53

\* Bits of one digit, and the base of the digits.
FDigitBits == 15

FBase == 2^FDigitBits

\* Digits behind the binary point, and bits behind it.
FScaleDigits == 8

FScale == FScaleDigits * FDigitBits

\* Digits of a number.
FLimbs == 18

\* The digits of f as a sequence.
Digits(f) == SubSeq(f, 1, FLimbs)

FZero == Digits([i \in 1..FLimbs |-> 0])

\* The integer n (0 <= n < FBase) as a float.
FOfInt(n) == Digits([i \in 1..FLimbs |-> IF i = FScaleDigits + 1 THEN n ELSE 0])

\* Carry into digit i of a + b.
RECURSIVE FCarry(_, _, _)
FCarry(a, b, i) ==
    IF i = 1 THEN 0 ELSE (a[i - 1] + b[i - 1] + FCarry(a, b, i - 1)) \div FBase

\* a + b, exactly.
BigAdd(a, b) == Digits([i \in 1..FLimbs |-> (a[i] + b[i] + FCarry(a, b, i)) % FBase])

\* Borrow from digit i of a - b.
RECURSIVE FBorrow(_, _, _)
FBorrow(a, b, i) ==
    IF i = 1 THEN 0
    ELSE IF a[i - 1] - b[i - 1] - FBorrow(a, b, i - 1) < 0 THEN 1 ELSE 0

\* a - b for a >= b, exactly.
BigSub(a, b) ==
    Digits([i \in 1..FLimbs |-> (a[i] - b[i] - FBorrow(a, b, i) + FBase) % FBase])

\* a < b on the digits from i down.
RECURSIVE BigLessFrom(_, _, _)
BigLessFrom(a, b, i) ==
    IF i = 0 THEN FALSE
    ELSE IF a[i] # b[i] THEN a[i] < b[i]
    ELSE BigLessFrom(a, b, i - 1)

\* a < b and a <= b: the comparisons of two floats.
FLess(a, b) == BigLessFrom(a, b, FLimbs)

FLe(a, b) == ~FLess(b, a)

\* 2 * a + bit
BigDouble(a, bit) ==
    Digits([i \in 1..FLimbs |->
        (2 * a[i] + (IF i = 1 THEN bit ELSE a[i - 1] \div (FBase \div 2))) % FBase])

\* Bit k of a, k counted from 0.
BigBit(a, k) == (a[(k \div FDigitBits) + 1] \div 2^(k % FDigitBits)) % 2

\* 2^k
BigPow2(k) ==
    Digits([i \in 1..FLimbs |->
        IF i = (k \div FDigitBits) + 1 THEN 2^(k % FDigitBits) ELSE 0])

\* The position of the highest bit set, -1 when there is none.
RECURSIVE BigTopDigit(_, _)
BigTopDigit(a, i) ==
    IF i = 0 THEN 0 ELSE IF a[i] # 0 THEN i ELSE BigTopDigit(a, i - 1)

RECURSIVE DigitTop(_, _)
DigitTop(d, k) ==
    IF k = 0 \/ d >= 2^k THEN k ELSE DigitTop(d, k - 1)

BigTop(a) ==
    LET i == BigTopDigit(a, FLimbs)
    IN  IF i = 0 THEN -1
        ELSE (i - 1) * FDigitBits + DigitTop(a[i], FDigitBits - 1)

\* a with its bits below k cleared.
BigClearBelow(a, k) ==
    Digits([i \in 1..FLimbs |->
        IF i < (k \div FDigitBits) + 1 THEN 0
        ELSE IF i = (k \div FDigitBits) + 1
        THEN (a[i] \div 2^(k % FDigitBits)) * 2^(k % FDigitBits)
        ELSE a[i]])

\* Some bit of a below k is set.
BigAnyBelow(a, k) == a # BigClearBelow(a, k)

\* Round to nearest, ties to even: a (followed, when sticky, by further
\* non-zero bits) rounded to FPrecision significant bits.
FRound(a, sticky) ==
    LET top  == BigTop(a)
        drop == top - (FPrecision - 1)
    IN  IF drop <= 0 THEN a
        ELSE LET kept == BigClearBelow(a, drop)
                 half == BigBit(a, drop - 1) = 1
                 rest == sticky \/ BigAnyBelow(a, drop - 1)
                 odd  == BigBit(a, drop) = 1
             IN  IF half /\ (rest \/ odd) THEN BigAdd(kept, BigPow2(drop))
                 ELSE kept

\* a + b and a - b (a >= b) of two floats.
FAdd(a, b) == FRound(BigAdd(a, b), FALSE)

FSub(a, b) == FRound(BigSub(a, b), FALSE)

\* Digit i of a, 0 outside the digits.
BigDigit(a, i) == IF i >= 1 /\ i <= FLimbs THEN a[i] ELSE 0

\* a moved down by k bits.
BigShr(a, k) ==
    LET dl == k \div FDigitBits
        db == k % FDigitBits
    IN  Digits([i \in 1..FLimbs |->
            (BigDigit(a, i + dl) \div 2^db)
            + (BigDigit(a, i + dl + 1) % 2^db) * 2^(FDigitBits - db)])

\* a moved up by k bits.
BigShl(a, k) ==
    LET dl == k \div FDigitBits
        db == k % FDigitBits
    IN  Digits([i \in 1..FLimbs |->
            (BigDigit(a, i - dl) % 2^(FDigitBits - db)) * 2^db
            + (BigDigit(a, i - dl - 1) \div 2^(FDigitBits - db))])

\* Long division: the bits of n from k down to stop are brought into the
\* remainder r one at a time; q collects the quotient.  The remainder is
\* below d before and after every step.
BigDivStep(n, d, k, st) ==
    LET r2 == BigDouble(st.r, BigBit(n, k))
    IN  IF FLess(r2, d)
        THEN [r |-> r2, q |-> BigDouble(st.q, 0)]
        ELSE [r |-> BigSub(r2, d), q |-> BigDouble(st.q, 1)]

RECURSIVE BigDivFrom(_, _, _, _, _)
BigDivFrom(n, d, k, stop, st) ==
    IF k < stop \/ ~FLess(st.r, d) THEN st
    ELSE BigDivFrom(n, d, k - 1, stop, BigDivStep(n, d, k, st))

\* Quotient bits computed beyond the leading one: FPrecision and guards.
FQuotientBits == FPrecision + 3

\* a / b of two floats, b > 0: a * 2^FScale is divided by b down to the
\* bit stop; the bits of the quotient below stop only tell whether the
\* quotient is exact.
FDiv(a, b) ==
    IF a = FZero THEN FZero
    ELSE LET n     == BigShl(a, FScale)
             lead  == BigTop(n) - BigTop(b)
             stop  == IF lead > FQuotientBits THEN lead - FQuotientBits ELSE 0
             res   == BigDivFrom(n, b, lead, stop, [r |-> BigShr(n, lead + 1), q |-> FZero])
             below == BigAnyBelow(n, stop)
         IN  FRound(BigShl(res.q, stop), res.r # FZero \/ below)

\* The float of the decimal literal with the value n / 10.
FTenths(n) == FDiv(FOfInt(n), FOfInt(10))

FOne == FOfInt(1)

---------------------------------------------------------------------------
(* SceneManager: the schedule of a transition in floats                    *)

\* The literal 0.1 of update().
FHold == FTenths(1)

\* SceneManager.set_transition_params with a target and the fade times
\* fade_in_time, fade_out_time >= 0: the fields of the schedule.
FloatSetTransitionParams(t, fade_in_time, fade_out_time) ==
    [t EXCEPT !.fade_in_time          = fade_in_time,
              !.fade_out_time         = fade_out_time,
              !.is_transitioning      = TRUE,
              !.transition_start_time = FZero,
              !.transition_opacity    = FZero,
              !.below_zero            = FALSE,
              !.error                 = "none"]

\* fps of the current effect of the current scene.
FloatFpsSet == {5, 10, 30}

\* 1.0 / fps, the step of update().
FloatStep == [fps \in FloatFpsSet |-> FDiv(FOne, FOfInt(fps))]

\* The block of update() guarded by is_transitioning, on the fields of
\* the schedule; below_zero tells that 1.0 - x was taken of an x > 1.0.
FloatTransition(t) ==
    LET now     == FAdd(t.transition_start_time, FloatStep[t.fps])
        hold    == FAdd(t.fade_out_time, FHold)
        t2      == [t EXCEPT !.transition_start_time = now]
    IN  IF FLe(now, t.fade_out_time)
        THEN IF t.fade_out_time = FZero
             THEN [t2 EXCEPT !.error = "ZeroDivisionError"]
             ELSE LET x == FDiv(now, t.fade_out_time)
                  IN  [t2 EXCEPT
                         !.below_zero = FLess(FOne, x),
                         !.transition_opacity =
                             IF FLess(FOne, x) THEN FSub(x, FOne)
                             ELSE FSub(FOne, x)]
        ELSE IF FLe(now, hold)
        THEN [t2 EXCEPT !.transition_opacity = FZero, !.below_zero = FALSE]
        ELSE IF FLe(now, FAdd(hold, t.fade_in_time))
        THEN IF t.fade_in_time = FZero
             THEN [t2 EXCEPT !.error = "ZeroDivisionError"]
             ELSE [t2 EXCEPT
                     !.below_zero = FALSE,
                     !.transition_opacity = FDiv(FSub(now, hold), t.fade_in_time)]
        ELSE [t2 EXCEPT !.transition_opacity = FOne,
                        !.below_zero = FALSE,
                        !.is_transitioning = FALSE]


\* Most set_transition_params calls on the schedule.
MaxFloatCommands == 1

\* Fade times, in tenths of a second, and their floats.
FloatTenthsSet == {0, 1, 2, 3, 5}

FloatFadeSet == {FTenths(n) : n \in FloatTenthsSet}

FloatInit ==
    \E fps \in FloatFpsSet :
        ftrans = [ fps                   |-> fps,
                   fade_in_time          |-> FZero,
                   fade_out_time         |-> FZero,
                   is_transitioning      |-> FALSE,
                   transition_start_time |-> FZero,
                   transition_opacity    |-> FOne,
                   below_zero            |-> FALSE,
                   error                 |-> "none",
                   cmds                  |-> 0,
                   updates               |-> 0 ]

FloatSetTransition ==
    \E fade_in \in FloatFadeSet, fade_out \in FloatFadeSet :
        /\ ftrans.cmds < MaxFloatCommands
        /\ ftrans' = [FloatSetTransitionParams(ftrans, fade_in, fade_out)
                         EXCEPT !.cmds = @ + 1, !.updates = 0]
        /\ FloatFrame

\* update() while a transition runs and a scene is current.
FloatUpdate ==
    /\ ftrans.is_transitioning
    /\ ftrans.error = "none"
    /\ ftrans' = [FloatTransition(ftrans) EXCEPT !.updates = @ + 1]
    /\ FloatFrame

FloatNext ==
    \/ FloatSetTransition
    \/ FloatUpdate

FloatIdle ==
    ftrans = [ fps |-> 0, fade_in_time |-> FZero, fade_out_time |-> FZero,
               is_transitioning |-> FALSE, transition_start_time |-> FZero,
               transition_opacity |-> FOne, below_zero |-> FALSE,
               error |-> "none", cmds |-> 0, updates |-> 0 ]

---------------------------------------------------------------------------
(* OSCHandler: the callbacks of the control messages                       *)

DEFAULT_FPS == 60

DEFAULT_LED_COUNT == 225

DEFAULT_LENGTH == <<10, 10, 10>>

DEFAULT_MOVE_SPEED == 10

DEFAULT_MOVE_RANGE == <<0, DEFAULT_LED_COUNT - 1>>

DEFAULT_INITIAL_POSITION == 0

\* The LightSegment the add callbacks construct; fade is what they assign
\* to segment.fade afterwards.
DefaultSegment(fade) ==
    [NewSegment(<<0, 1, 2, 3>>, DefaultTransparency, DEFAULT_LENGTH,
                DEFAULT_MOVE_SPEED, DEFAULT_MOVE_RANGE,
                DEFAULT_INITIAL_POSITION, TRUE, DefaultDimmerTime, RatioDen)
        EXCEPT !.fade = fade]

\* The LightEffect the add callbacks construct: one default segment, id 1.
DefaultEffect(fade) ==
    AddSegment(NewEffect(DEFAULT_LED_COUNT, DEFAULT_FPS), 1, DefaultSegment(fade))

\* The arguments of a message are Python values: a number, a str, a list
\* of numbers and strs, or (out of json.loads) a dict of such values.
OscNum(n) == [kind |-> "num", num |-> n, text |-> "", items |-> <<>>, entries |-> <<>>]

OscStr(t) == [kind |-> "str", num |-> 0, text |-> t, items |-> <<>>, entries |-> <<>>]

OscList(items) == [kind |-> "list", num |-> 0, text |-> "", items |-> items, entries |-> <<>>]

OscDict(entries) == [kind |-> "dict", num |-> 0, text |-> "", items |-> <<>>, entries |-> entries]

\* The Python value as the model stores it in an attribute.
RECURSIVE Raw(_)
Raw(v) ==
    IF v.kind = "num" THEN v.num
    ELSE IF v.kind = "str" THEN v.text
    ELSE IF v.kind = "list" THEN [k \in 1..Len(v.items) |-> Raw(v.items[k])]
    ELSE [k \in DOMAIN v.entries |-> Raw(v.entries[k])]

\* The strs the modelled messages carry.
TextWord == "fast"

TextOff == "off"

TextPair == "7 2"

TextMixed == "[3, \"a\"]"

TextBundle == "{\"colors\": [3, 2, 1, 0], \"speed\": \"fast\"}"

\* '[' in value and ']' in value
HasBrackets(t) == t \in {TextMixed, TextBundle}

\* json.loads(value) of the strs above that hold brackets.
JsonLoads(t) ==
    IF t = TextMixed THEN OscList(<<OscNum(3), OscStr("a")>>)
    ELSE OscDict([k \in {"colors", "speed"} |->
                    IF k = "colors"
                    THEN OscList(<<OscNum(3), OscNum(2), OscNum(1), OscNum(0)>>)
                    ELSE OscStr("fast")])

\* The list the comprehension of lines 1096-1099 builds of the words of a
\* str without brackets: digits become ints, other words stay strs.
SplitWords(t) ==
    IF t = TextPair THEN OscList(<<OscNum(7), OscNum(2)>>)
    ELSE OscList(<<OscStr(t)>>)

\* int(value): a number converts, the modelled strs raise ValueError and a
\* list or dict raises TypeError.
IntOf(v) ==
    IF v.kind = "num" THEN [error |-> "none", n |-> v.num]
    ELSE IF v.kind = "str" THEN [error |-> "ValueError", n |-> 0]
    ELSE [error |-> "TypeError", n |-> 0]

\* How a callback ends: error is the exception that left it ("none" when
\* it returned), light_scenes is the table of scenes it leaves behind.
Returned(ls) == [error |-> "none", light_scenes |-> ls]

Raised(error, ls) == [error |-> error, light_scenes |-> ls]

\* scene_add_effect_callback
SceneAddEffectCallback(ls, scene_id, args) ==
    IF Len(args) < 1 THEN Returned(ls)
    ELSE LET effect_id == IntOf(args[1])
         IN  IF effect_id.error # "none" THEN Returned(ls)
             ELSE IF scene_id \notin DOMAIN ls THEN Returned(ls)
             ELSE IF effect_id.n \in DOMAIN ls[scene_id].effects THEN Returned(ls)
             ELSE Returned([ls EXCEPT ![scene_id] =
                               AddEffect(@, effect_id.n, DefaultEffect(FALSE))])

\* SceneRemoveEffectCallback without the refusal of the last effect.
SceneRemoveEffectCallback_NoLastGuard(ls, scene_id, args) ==
    IF Len(args) < 1 THEN Returned(ls)
    ELSE LET effect_id == IntOf(args[1])
         IN  IF effect_id.error # "none" THEN Returned(ls)
             ELSE IF scene_id \notin DOMAIN ls THEN Returned(ls)
             ELSE IF effect_id.n \notin DOMAIN ls[scene_id].effects THEN Returned(ls)
             ELSE Returned([ls EXCEPT ![scene_id] = RemoveEffect(@, effect_id.n)])

\* scene_remove_effect_callback
SceneRemoveEffectCallback(ls, scene_id, args) ==
    IF Len(args) < 1 THEN Returned(ls)
    ELSE LET effect_id == IntOf(args[1])
         IN  IF effect_id.error # "none" THEN Returned(ls)
             ELSE IF scene_id \notin DOMAIN ls THEN Returned(ls)
             ELSE IF effect_id.n \notin DOMAIN ls[scene_id].effects THEN Returned(ls)
             ELSE IF Cardinality(DOMAIN ls[scene_id].effects) <= 1 THEN Returned(ls)
             ELSE LET sc            == ls[scene_id]
                      other_effects == DelKey(sc.effect_order, effect_id.n)
                  IN  Returned([ls EXCEPT ![scene_id] =
                        [sc EXCEPT
                            !.current_effect_ID =
                                IF @ = effect_id.n /\ Len(other_effects) > 0
                                THEN other_effects[1] ELSE @,
                            !.effects = [i \in DOMAIN sc.effects \ {effect_id.n} |->
                                            sc.effects[i]],
                            !.effect_order = other_effects]])

\* The fade times the change callbacks pass: 1.0 s.
ChangeFade == 1000 * MsDen

\* SceneChangeEffectCallback without the lookup of the effect.
SceneChangeEffectCallback_NoLookup(ls, scene_id, args) ==
    IF Len(args) < 1 THEN Returned(ls)
    ELSE LET effect_id == IntOf(args[1])
         IN  IF effect_id.error # "none" THEN Returned(ls)
             ELSE IF scene_id \notin DOMAIN ls THEN Returned(ls)
             ELSE IF ls[scene_id].current_effect_ID = effect_id.n THEN Returned(ls)
             ELSE Returned([ls EXCEPT ![scene_id] =
                    [SetTransitionParams(@, effect_id.n, NonePalette,
                                         ChangeFade, ChangeFade)
                        EXCEPT !.effect_transition_active = TRUE]])

\* scene_change_effect_callback
SceneChangeEffectCallback(ls, scene_id, args) ==
    IF Len(args) < 1 THEN Returned(ls)
    ELSE LET effect_id == IntOf(args[1])
         IN  IF effect_id.error # "none" THEN Returned(ls)
             ELSE IF scene_id \notin DOMAIN ls THEN Returned(ls)
             ELSE IF effect_id.n \notin DOMAIN ls[scene_id].effects THEN Returned(ls)
             ELSE IF ls[scene_id].current_effect_ID = effect_id.n THEN Returned(ls)
             ELSE Returned([ls EXCEPT ![scene_id] =
                    [SetTransitionParams(@, effect_id.n, NonePalette,
                                         ChangeFade, ChangeFade)
                        EXCEPT !.effect_transition_active = TRUE]])

\* sorted(scene.palettes.keys()) on the names of the palettes.
SortedNames(names) == SelectSeq(<<"A", "B", "C", "D", "E">>, LAMBDA p : p \in names)

\* scene_change_palette_callback; not wrapped in try / except.
SceneChangePaletteCallback(ls, scene_id, args) ==
    IF Len(args) < 1 THEN Returned(ls)
    ELSE IF scene_id \notin DOMAIN ls THEN Returned(ls)
    ELSE LET palette_id   == args[1]
             sc           == ls[scene_id]
             palette_keys == SortedNames(sc.palettes)
             target_palette ==
                 IF palette_id.kind = "str"
                 THEN IF palette_id.text \in sc.palettes
                      THEN palette_id.text ELSE NonePalette
                 ELSE IF palette_id.kind = "num"
                 THEN IF 0 <= palette_id.num /\ palette_id.num < Len(palette_keys)
                      THEN palette_keys[palette_id.num + 1] ELSE NonePalette
                 ELSE NonePalette
         IN  IF target_palette = NonePalette THEN Returned(ls)
             ELSE Returned([ls EXCEPT ![scene_id] =
                    [SetTransitionParams(@, None, target_palette,
                                         ChangeFade, ChangeFade)
                        EXCEPT !.palette_transition_active = TRUE]])

\* scene_palette_callback: args[0] is read before anything is looked up.
ScenePaletteCallback(ls, scene_id, args) ==
    IF Len(args) < 1 THEN Raised("IndexError", ls)
    ELSE IF scene_id \notin DOMAIN ls THEN Returned(ls)
    ELSE LET palette_id == args[1]
         IN  IF palette_id.kind = "str" /\ palette_id.text \in ls[scene_id].palettes
             THEN Returned([ls EXCEPT ![scene_id] =
                                SceneSetPalette(@, palette_id.text)])
             ELSE Returned(ls)

\* str(int(palette_id)) of the numbers the modelled messages carry.
StrOfInt(n) ==
    IF n \in 0..9 THEN <<"0", "1", "2", "3", "4", "5", "6", "7", "8", "9">>[n + 1]
    ELSE "other"

\* effect.current_palette = palette_id; effect.set_palette(palette_id)
WithEffectPalette(ls, scene_id, effect_id, palette_id) ==
    [ls EXCEPT ![scene_id].effects[effect_id] = EffectSetPalette(@, palette_id)]

\* scene_effect_palette_callback (/scene/{s}/effect/{e}/set_palette): a
\* str names a palette of the scene; a number names the palette called by
\* its digits and, failing that, the palette at that index of the sorted
\* names.
SceneEffectPaletteCallback(ls, scene_id, effect_id, args) ==
    IF Len(args) < 1 THEN Returned(ls)
    ELSE IF scene_id \notin DOMAIN ls THEN Returned(ls)
    ELSE IF effect_id \notin DOMAIN ls[scene_id].effects THEN Returned(ls)
    ELSE LET palette_id == args[1]
             sc         == ls[scene_id]
             palettes   == SortedNames(sc.palettes)
         IN  IF palette_id.kind = "str"
             THEN IF palette_id.text \in sc.palettes
                  THEN Returned(WithEffectPalette(ls, scene_id, effect_id,
                                                  palette_id.text))
                  ELSE Returned(ls)
             ELSE IF palette_id.kind = "num"
             THEN IF StrOfInt(palette_id.num) \in sc.palettes
                  THEN Returned(WithEffectPalette(ls, scene_id, effect_id,
                                                  StrOfInt(palette_id.num)))
                  ELSE IF 0 <= palette_id.num /\ palette_id.num < Len(palettes)
                  THEN Returned(WithEffectPalette(ls, scene_id, effect_id,
                                                  palettes[palette_id.num + 1]))
                  ELSE Returned(ls)
             ELSE Returned(ls)

\* scene_effect_direct_palette_callback (/scene/{s}/effect/{e}/direct_palette)
SceneEffectDirectPaletteCallback(ls, scene_id, effect_id, args) ==
    IF Len(args) < 1 THEN Returned(ls)
    ELSE IF scene_id \notin DOMAIN ls THEN Returned(ls)
    ELSE IF effect_id \notin DOMAIN ls[scene_id].effects THEN Returned(ls)
    ELSE LET palette_id   == args[1]
             sc           == ls[scene_id]
             palette_keys == SortedNames(sc.palettes)
             target_palette ==
                 IF palette_id.kind = "str"
                 THEN IF palette_id.text \in sc.palettes
                      THEN palette_id.text ELSE NonePalette
                 ELSE IF palette_id.kind = "num"
                 THEN IF 0 <= palette_id.num /\ palette_id.num < Len(palette_keys)
                      THEN palette_keys[palette_id.num + 1] ELSE NonePalette
                 ELSE NonePalette
         IN  IF target_palette = NonePalette THEN Returned(ls)
             ELSE Returned(WithEffectPalette(ls, scene_id, effect_id, target_palette))

\* FreeId without the search: the requested id is used as it is.
FreeId_Requested(segments, segment_id) == segment_id

\* while segment_id in effect.segments: segment_id += 1
RECURSIVE FreeId(_, _)
FreeId(segments, segment_id) ==
    IF segment_id \in DOMAIN segments THEN FreeId(segments, segment_id + 1)
    ELSE segment_id

\* scene_effect_add_segment_callback; max_segments is config.MAX_SEGMENTS.
SceneEffectAddSegmentCallback(ls, max_segments, scene_id, effect_id, args) ==
    LET segment_id == IF Len(args) < 1 THEN 1
                      ELSE IF IntOf(args[1]).error # "none" THEN 1
                      ELSE IntOf(args[1]).n
    IN  IF scene_id \notin DOMAIN ls THEN Returned(ls)
        ELSE IF effect_id \notin DOMAIN ls[scene_id].effects THEN Returned(ls)
        ELSE LET e == ls[scene_id].effects[effect_id]
             IN  IF Cardinality(DOMAIN e.segments) >= max_segments THEN Returned(ls)
                 ELSE Returned([ls EXCEPT ![scene_id].effects[effect_id] =
                        AddSegment(e, FreeId(e.segments, segment_id),
                                   DefaultSegment(TRUE))])

\* scene_effect_remove_segment_callback
SceneEffectRemoveSegmentCallback(ls, scene_id, effect_id, args) ==
    IF Len(args) < 1 THEN Returned(ls)
    ELSE LET segment_id == IntOf(args[1])
         IN  IF segment_id.error # "none" THEN Returned(ls)
             ELSE IF scene_id \notin DOMAIN ls THEN Returned(ls)
             ELSE IF effect_id \notin DOMAIN ls[scene_id].effects THEN Returned(ls)
             ELSE LET e == ls[scene_id].effects[effect_id]
                  IN  IF segment_id.n \notin DOMAIN e.segments THEN Returned(ls)
                      ELSE IF Cardinality(DOMAIN e.segments) <= 1 THEN Returned(ls)
                      ELSE Returned([ls EXCEPT ![scene_id].effects[effect_id] =
                                        RemoveSegment(e, segment_id.n)])

\* How update_param ends: the exception it raised ("none" when it
\* returned) and the segment it leaves behind.
Kept(s) == [error |-> "none", segment |-> s]

Broke(error, s) == [error |-> error, segment |-> s]

\* calculate_rgb() on the colour list just assigned: an entry that is an
\* int inside the palette is looked up, any other entry is red, and the
\* result is padded to four entries with its last one.
ColorRgb(value) ==
    LET palette == DEFAULT_COLOR_PALETTES["A"]
        n       == Len(value.items)
        at(k)   == IF /\ value.items[k].kind = "num"
                      /\ 0 <= value.items[k].num
                      /\ value.items[k].num < Len(palette)
                   THEN palette[value.items[k].num + 1]
                   ELSE <<255, 0, 0>>
    IN  [k \in 1..Max(n, 4) |->
            IF k <= n THEN at(k) ELSE IF n > 0 THEN at(n) ELSE <<255, 0, 0>>]

\* LightSegment.update_param(param_name, value) on a Python value.  color
\* is given a list; move_range a list of two numbers; is_edge_reflect a
\* bool (given here as a number, 0 for False); any other name is setattr.
UpdateParam(s, param_name, value) ==
    IF param_name = "color"
    THEN IF value.kind = "list"
         THEN Kept([s EXCEPT !.color = Raw(value), !.rgb_color = ColorRgb(value)])
         ELSE Broke("TypeError", [s EXCEPT !.color = Raw(value)])
    ELSE IF param_name = "move_range"
    THEN Kept(SetMoveRange(s, Raw(value)))
    ELSE IF param_name = "move_speed"
    THEN IF value.kind = "num"
         THEN Kept(SetMoveSpeed(s, value.num))
         ELSE Broke("TypeError", [s EXCEPT !.move_speed = Raw(value)])
    ELSE IF param_name = "is_edge_reflect"
    THEN Kept(SetAttr(s, param_name, value.num # 0))
    ELSE IF param_name = "transparency"
    THEN Kept([s EXCEPT !.transparency =
                 [k \in 1..Len(value.items) |->
                     IF value.items[k].kind = "num"
                     THEN Frac(value.items[k].num, 1)
                     ELSE Raw(value.items[k])]])
    ELSE IF param_name = "dimmer_time"
    THEN Kept([s EXCEPT !.dimmer_time = Raw(value)])
    ELSE IF param_name = "dimmer_time_ratio"
    THEN Kept([s EXCEPT !.dimmer_time_ratio = Raw(value)])
    ELSE Kept(SetAttr(s, param_name, Raw(value)))

\* Lines 1091-1103: a str value of a list-valued parameter is parsed, by
\* json.loads when it holds brackets and word by word otherwise.
ListOfString(param_name, value) ==
    IF /\ param_name \in {"color", "move_range", "transparency", "dimmer_time", "length"}
       /\ value.kind = "str"
    THEN IF HasBrackets(value.text) THEN JsonLoads(value.text)
         ELSE SplitWords(value.text)
    ELSE value

\* min(a, b) / max(a, b) of two Python values: numbers compare, a number
\* and a str do not.
Comparable(a, b) == a.kind = "num" /\ b.kind = "num"

\* The "color" branch on a dict: colors, then speed, each by update_param;
\* the first that raises ends the callback.
ColorBundle(s, value) ==
    LET keys   == DOMAIN value.entries
        first  == IF "colors" \in keys
                  THEN UpdateParam(s, "color", value.entries["colors"])
                  ELSE Kept(s)
        second == IF first.error # "none" THEN first
                  ELSE IF "speed" \in keys
                  THEN UpdateParam(first.segment, "move_speed", value.entries["speed"])
                  ELSE first
    IN  second

\* The branch of scene_effect_segment_callback for param_name, on the
\* value left by ListOfString.
SegmentParam(s, param_name, value) ==
    IF param_name = "color"
    THEN IF value.kind = "dict" THEN ColorBundle(s, value)
         ELSE IF value.kind = "list" THEN UpdateParam(s, "color", value)
         ELSE IF value.kind = "num"
         THEN UpdateParam(s, "color",
                OscList([k \in 1..Len(s.color) |->
                            IF k = 1 THEN value ELSE OscNum(s.color[k])]))
         ELSE Kept(s)
    ELSE IF param_name = "move_range"
    THEN IF value.kind = "list" /\ Len(value.items) >= 2
         THEN IF Comparable(value.items[1], value.items[2])
              THEN UpdateParam(s, "move_range",
                     OscList(<<OscNum(Min(value.items[1].num, value.items[2].num)),
                               OscNum(Max(value.items[1].num, value.items[2].num))>>))
              ELSE Broke("TypeError", s)
         ELSE IF value.kind = "num"
         THEN UpdateParam(s, "move_range",
                OscList(<<OscNum(Min(s.move_range[1], value.num)),
                          OscNum(Max(s.move_range[1], value.num))>>))
         ELSE Kept(s)
    ELSE IF param_name = "transparency"
    THEN IF value.kind = "num"
         THEN Kept([s EXCEPT !.transparency =
                      [k \in 1..Len(s.transparency) |->
                          FracClamp01(Frac(value.num, 1))]])
         ELSE IF value.kind = "list" THEN UpdateParam(s, param_name, value)
         ELSE Kept(s)
    ELSE IF param_name = "dimmer_time"
    THEN IF value.kind = "list" /\ Len(value.items) >= 5
         THEN UpdateParam(s, param_name, value)
         ELSE IF value.kind = "num"
         THEN Kept([s EXCEPT !.dimmer_time[5] = value.num])
         ELSE Kept(s)
    ELSE IF param_name = "dimmer_time_ratio"
    THEN IF value.kind = "num"
         THEN Kept([s EXCEPT !.dimmer_time_ratio =
                      IF value.num >= 1 THEN value.num * RatioDen
                      ELSE Frac(1, 10)])
         ELSE Kept(s)
    ELSE IF param_name = "is_edge_reflect"
    THEN UpdateParam(s, param_name,
            OscNum(IF value.kind = "num" THEN (IF value.num # 0 THEN 1 ELSE 0)
                   ELSE IF value.kind = "str"
                   THEN (IF value.text \in {"true", "yes", "1", "on"} THEN 1 ELSE 0)
                   ELSE 1))
    ELSE IF param_name = "move_speed"
    THEN IF value.kind = "num" THEN UpdateParam(s, param_name, value)
         ELSE Kept(s)
    ELSE UpdateParam(s, param_name, value)

\* scene_effect_segment_callback: args[0] is read before anything is
\* looked up, and nothing is wrapped in try / except but the parsing of a
\* str value.
SceneEffectSegmentCallback(ls, scene_id, effect_id, segment_id, param_name, args) ==
    IF Len(args) < 1 THEN Raised("IndexError", ls)
    ELSE IF scene_id \notin DOMAIN ls THEN Returned(ls)
    ELSE IF effect_id \notin DOMAIN ls[scene_id].effects THEN Returned(ls)
    ELSE IF segment_id \notin DOMAIN ls[scene_id].effects[effect_id].segments
    THEN Returned(ls)
    ELSE LET s     == ls[scene_id].effects[effect_id].segments[segment_id]
             value == ListOfString(param_name, args[1])
             done  == SegmentParam(s, param_name, value)
         IN  Raised(done.error,
                    [ls EXCEPT ![scene_id].effects[effect_id].segments[segment_id] =
                        done.segment])

\* A message sent to the client: the address by its pattern and ids
\* (None where the pattern has none), the value by its entries in the
\* order the callback writes them, whole numbers in ints and fractions
\* in fracs.
Reply(path, scene_id, effect_id, segment_id, name, ints, fracs) ==
    [ path |-> path, scene |-> scene_id, effect |-> effect_id,
      segment |-> segment_id, name |-> name, ints |-> ints, fracs |-> fracs ]

Flag(b) == IF b THEN 1 ELSE 0

\* init_callback: the messages sent for one segment.  position_interval,
\* span_range, span_speed and span_interval are attributes no segment of
\* the model has: getattr gives their defaults.
SegmentReplies(scene_id, effect_id, segment_id, s) ==
    LET bundle == <<s.move_speed, Flag(s.gradient)>> \o s.color
    IN  << Reply("/scene/*/effect/*/segment/*/color", scene_id, effect_id,
                 segment_id, "", bundle, <<>>),
           Reply("/scene/*/effect/*/segment/*/position", scene_id, effect_id,
                 segment_id, "",
                 <<s.initial_position, s.move_speed, 10>>
                     \o s.move_range, <<>>),
           Reply("/scene/*/effect/*/segment/*/span", scene_id, effect_id,
                 segment_id, "",
                 <<Sum3(s.length), s.move_speed, 10,
                   Flag(s.fade)>>
                     \o s.move_range \o s.gradient_colors, <<>>),
           Reply("/scene/*/effect/*/segment/*/transparency", scene_id, effect_id,
                 segment_id, "", <<>>, s.transparency),
           Reply("/scene/*/effect/*/segment/*/is_edge_reflect", scene_id,
                 effect_id, segment_id, "", <<Flag(s.is_edge_reflect)>>, <<>>),
           Reply("/scene/*/effect/*/segment/*/dimmer_time", scene_id, effect_id,
                 segment_id, "", s.dimmer_time, <<>>),
           Reply("/scene/*/effect/*/segment/*/dimmer_time_ratio", scene_id,
                 effect_id, segment_id, "", <<s.dimmer_time_ratio>>, <<>>),
           Reply("/effect/*/segment/*/color", None, effect_id, segment_id, "",
                 bundle, <<>>),
           Reply("/effect/*/object/*/color", None, effect_id, segment_id, "",
                 bundle, <<>>),
           Reply("/effect/*/object/*/position/initial_position", None, effect_id,
                 segment_id, "", <<s.initial_position>>, <<>>),
           Reply("/effect/*/object/*/position/speed", None, effect_id,
                 segment_id, "", <<s.move_speed>>, <<>>),
           Reply("/effect/*/object/*/position/range", None, effect_id,
                 segment_id, "", s.move_range, <<>>) >>

\* The concatenation of f[k] for the k of ids, in their order.
RECURSIVE Concat(_, _)
Concat(f, ids) ==
    IF ids = <<>> THEN <<>> ELSE f[Head(ids)] \o Concat(f, Tail(ids))

\* init_callback: the messages sent for one scene, the palettes by their
\* names (the model keeps the keys of the palette table only).
SceneReplies(scene_id, sc) ==
    LET names == SortedNames(sc.palettes)
        of_effect == [e \in DOMAIN sc.effects |->
            Concat([g \in DOMAIN sc.effects[e].segments |->
                       SegmentReplies(scene_id, e, g, sc.effects[e].segments[g])],
                   Sorted(DOMAIN sc.effects[e].segments))]
    IN  [k \in 1..Len(names) |->
            Reply("/palette/*", None, None, None, names[k], <<>>, <<>>)]
        \o Concat(of_effect, sc.effect_order)

\* InitCallback answering whatever the first argument is.
InitCallback_AnyArgument(ls, args) ==
    IF Len(args) = 0 THEN <<>>
    ELSE Concat([i \in DOMAIN ls |-> SceneReplies(i, ls[i])], Sorted(DOMAIN ls))

\* init_callback: the messages sent to the client; no attribute of the
\* handler or of the model is assigned.
InitCallback(ls, args) ==
    IF Len(args) = 0 \/ args[1] # OscNum(1) THEN <<>>
    ELSE Concat([i \in DOMAIN ls |-> SceneReplies(i, ls[i])], Sorted(DOMAIN ls))

\* The LightSegment the legacy callbacks construct for a missing segment.
LegacySegment ==
    NewSegment(<<0, 1, 2, 3>>, DefaultTransparency, DEFAULT_LENGTH,
               DEFAULT_MOVE_SPEED, DEFAULT_MOVE_RANGE,
               DEFAULT_INITIAL_POSITION, TRUE, DefaultDimmerTime, RatioDen)

\* The table of scenes with scene_id in it: self.light_scenes[scene_id] =
\* LightScene(scene_ID=scene_id) when it is missing.
WithScene(ls, scene_id) ==
    IF scene_id \in DOMAIN ls THEN ls
    ELSE [i \in DOMAIN ls \cup {scene_id} |->
            IF i = scene_id THEN NewScene ELSE ls[i]]

\* ... with effect_id in scene scene_id: scene.add_effect(effect_id,
\* LightEffect(...)) when it is missing.
WithEffect(ls, scene_id, effect_id) ==
    IF effect_id \in DOMAIN ls[scene_id].effects THEN ls
    ELSE [ls EXCEPT ![scene_id] =
            AddEffect(@, effect_id, NewEffect(DEFAULT_LED_COUNT, DEFAULT_FPS))]

\* ... with segment_id in that effect: effect.add_segment(segment_id,
\* LightSegment(...)) when it is missing.
WithSegment(ls, scene_id, effect_id, segment_id) ==
    IF segment_id \in DOMAIN ls[scene_id].effects[effect_id].segments THEN ls
    ELSE [ls EXCEPT ![scene_id].effects[effect_id] =
            AddSegment(@, segment_id, LegacySegment)]

\* legacy_effect_segment_callback: args[0] is read first, then scene 1,
\* the effect and the segment are created when missing, then the
\* canonical callback is called with the rewritten address.
LegacyEffectSegmentCallback(ls, effect_id, segment_id, param_name, args) ==
    IF Len(args) < 1 THEN Raised("IndexError", ls)
    ELSE LET scene_id == 1
             made     == WithSegment(WithEffect(WithScene(ls, scene_id),
                                                scene_id, effect_id),
                                     scene_id, effect_id, segment_id)
         IN  SceneEffectSegmentCallback(made, scene_id, effect_id, segment_id,
                                        param_name, args)

\* legacy_effect_object_callback: the same steps on the object id.
LegacyEffectObjectCallback(ls, effect_id, object_id, param_name, args) ==
    IF Len(args) < 1 THEN Raised("IndexError", ls)
    ELSE LET scene_id == 1
             made     == WithSegment(WithEffect(WithScene(ls, scene_id),
                                                scene_id, effect_id),
                                     scene_id, effect_id, object_id)
         IN  SceneEffectSegmentCallback(made, scene_id, effect_id, object_id,
                                        param_name, args)

\* scene_manager_add_scene_callback
SceneManagerAddSceneCallback(ls, args) ==
    IF Len(args) < 1 THEN Returned(ls)
    ELSE LET scene_id == IntOf(args[1])
         IN  IF scene_id.error # "none" THEN Returned(ls)
             ELSE IF scene_id.n \in DOMAIN ls THEN Returned(ls)
             ELSE Returned([i \in DOMAIN ls \cup {scene_id.n} |->
                              IF i = scene_id.n
                              THEN AddEffect(NewScene, 1, DefaultEffect(TRUE))
                              ELSE ls[i]])

\* scene_manager_remove_scene_callback
SceneManagerRemoveSceneCallback(ls, args) ==
    IF Cardinality(DOMAIN ls) <= 1 THEN Returned(ls)
    ELSE IF Len(args) < 1 THEN Returned(ls)
    ELSE LET scene_id == IntOf(args[1])
         IN  IF scene_id.error # "none" THEN Returned(ls)
             ELSE IF scene_id.n \notin DOMAIN ls THEN Returned(ls)
             ELSE Returned([i \in DOMAIN ls \ {scene_id.n} |-> ls[i]])

\* main.create_default_segments: segment i of an effect.
MainSegment(i) ==
    NewSegment(<<i % 6, (i + 1) % 6, (i + 2) % 6, (i + 3) % 6>>,
               DefaultTransparency, DEFAULT_LENGTH,
               DEFAULT_MOVE_SPEED * (IF i % 2 = 0 THEN 1 ELSE -1),
               DEFAULT_MOVE_RANGE, (DEFAULT_LED_COUNT \div 2) - 30 + i * 30,
               TRUE, DefaultDimmerTime, RatioDen)

\* main.create_default_effects(scene, 1) with create_default_segments(effect, 1).
MainScene ==
    AddEffect(NewScene, 1,
              AddSegment(NewEffect(DEFAULT_LED_COUNT, DEFAULT_FPS), 1, MainSegment(1)))

\* Number of control messages of a behaviour.
MaxMessages == 3

\* Ids the addresses and arguments of the messages name.
OscSceneIdSet == {1, 2}

OscEffectIdSet == {1, 2}

OscSegmentIdSet == {1, 2}

\* config.MAX_SEGMENTS is imported by the handler and defined nowhere in
\* src/config.py: any limit.
MaxSegmentsSet == {2, 3}

\* Argument tuples of the messages that carry an id.
IdArgsSet == {<<>>, <<OscNum(1)>>, <<OscNum(2)>>, <<OscStr(TextWord)>>}

\* Argument tuples of the palette messages.
PaletteArgsSet == {<<>>, <<OscStr("B")>>, <<OscStr("Z")>>, <<OscNum(2)>>}

\* Parameter names and argument tuples of the segment messages.
ParamMessageSet ==
    { <<"move_speed", <<>> >>,
      <<"move_speed", <<OscNum(-5)>> >>,
      <<"move_speed", <<OscStr(TextWord)>> >>,
      <<"color", <<OscStr(TextBundle)>> >>,
      <<"color", <<OscList(<<OscNum(3), OscNum(2), OscNum(1), OscNum(0)>>)>> >>,
      <<"move_range", <<OscList(<<OscNum(3), OscStr("a")>>)>> >>,
      <<"move_range", <<OscStr(TextMixed)>> >>,
      <<"move_range", <<OscStr(TextPair)>> >>,
      <<"is_edge_reflect", <<OscStr(TextOff)>> >> }

OscInit ==
    /\ \E max_segments \in MaxSegmentsSet :
          handler = [ light_scenes |-> [i \in {1} |-> MainScene],
                      max_segments |-> max_segments ]
    /\ oscLog = [ op |-> "init", error |-> "none", before |-> <<>>,
                  missing |-> FALSE, last |-> FALSE, count |-> 0,
                  msg |-> <<>>, repeated |-> FALSE,
                  replies |-> <<>>, previous |-> <<>> ]

\* The addressed scene, effect or segment does not exist.
SceneMissing(ls, scene_id) == scene_id \notin DOMAIN ls

EffectMissing(ls, scene_id, effect_id) ==
    SceneMissing(ls, scene_id) \/ effect_id \notin DOMAIN ls[scene_id].effects

SegmentMissing(ls, scene_id, effect_id, segment_id) ==
    \/ EffectMissing(ls, scene_id, effect_id)
    \/ segment_id \notin DOMAIN ls[scene_id].effects[effect_id].segments

\* The id an argument tuple names, None when it names none.
IdOf(args) ==
    IF Len(args) >= 1 /\ IntOf(args[1]).error = "none" THEN IntOf(args[1]).n
    ELSE None

\* The callback of a message ran: done is how it ended, missing tells
\* that a canonical address named a target that does not exist, msg is
\* the message when the log keeps it, repeated tells that it is the
\* message delivered just before, once more, replies are the messages
\* the callback sent to the client and previous those of the message
\* before.
OscReplied(op, done, missing, last, msg, replies) ==
    /\ oscLog.count < MaxMessages
    /\ handler' = [handler EXCEPT !.light_scenes = done.light_scenes]
    /\ oscLog' = [ op |-> op, error |-> done.error,
                   before |-> <<handler.light_scenes>>,
                   missing |-> missing, last |-> last,
                   count |-> oscLog.count + 1,
                   msg |-> msg,
                   repeated |-> msg # <<>> /\ oscLog.op = op /\ oscLog.msg = msg,
                   replies |-> replies,
                   previous |-> oscLog.replies ]
    /\ OscFrame

OscDeliveredMsg(op, done, missing, last, msg) ==
    OscReplied(op, done, missing, last, msg, <<>>)

OscDelivered(op, done, missing, last) ==
    OscDeliveredMsg(op, done, missing, last, <<>>)

OscAddEffect ==
    \E scene_id \in OscSceneIdSet, args \in IdArgsSet :
        OscDelivered("add_effect",
            SceneAddEffectCallback(handler.light_scenes, scene_id, args),
            SceneMissing(handler.light_scenes, scene_id), FALSE)

OscRemoveEffect ==
    \E scene_id \in OscSceneIdSet, args \in IdArgsSet :
        LET ls == handler.light_scenes
        IN  OscDelivered("remove_effect",
                SceneRemoveEffectCallback(ls, scene_id, args),
                IdOf(args) # None /\ EffectMissing(ls, scene_id, IdOf(args)),
                /\ ~EffectMissing(ls, scene_id, IdOf(args))
                /\ Cardinality(DOMAIN ls[scene_id].effects) = 1)

OscChangeEffect ==
    \E scene_id \in OscSceneIdSet, args \in IdArgsSet :
        LET ls == handler.light_scenes
        IN  OscDelivered("change_effect",
                SceneChangeEffectCallback(ls, scene_id, args),
                IdOf(args) # None /\ EffectMissing(ls, scene_id, IdOf(args)),
                FALSE)

OscChangePalette ==
    \E scene_id \in OscSceneIdSet, args \in PaletteArgsSet :
        OscDelivered("change_palette",
            SceneChangePaletteCallback(handler.light_scenes, scene_id, args),
            SceneMissing(handler.light_scenes, scene_id), FALSE)

OscSetPalette ==
    \E scene_id \in OscSceneIdSet, args \in PaletteArgsSet :
        OscDelivered("set_palette",
            ScenePaletteCallback(handler.light_scenes, scene_id, args),
            SceneMissing(handler.light_scenes, scene_id), FALSE)

OscEffectSetPalette ==
    \E scene_id \in OscSceneIdSet, effect_id \in OscEffectIdSet, args \in PaletteArgsSet :
        OscDeliveredMsg("effect_set_palette",
            SceneEffectPaletteCallback(handler.light_scenes, scene_id, effect_id, args),
            FALSE, FALSE, <<scene_id, effect_id, args>>)

OscEffectDirectPalette ==
    \E scene_id \in OscSceneIdSet, effect_id \in OscEffectIdSet, args \in PaletteArgsSet :
        OscDeliveredMsg("effect_direct_palette",
            SceneEffectDirectPaletteCallback(handler.light_scenes, scene_id, effect_id, args),
            FALSE, FALSE, <<scene_id, effect_id, args>>)

OscAddSegment ==
    \E scene_id \in OscSceneIdSet, effect_id \in OscEffectIdSet, args \in IdArgsSet :
        OscDelivered("add_segment",
            SceneEffectAddSegmentCallback(handler.light_scenes, handler.max_segments,
                                          scene_id, effect_id, args),
            EffectMissing(handler.light_scenes, scene_id, effect_id), FALSE)

OscRemoveSegment ==
    \E scene_id \in OscSceneIdSet, effect_id \in OscEffectIdSet, args \in IdArgsSet :
        LET ls == handler.light_scenes
        IN  OscDelivered("remove_segment",
                SceneEffectRemoveSegmentCallback(ls, scene_id, effect_id, args),
                \/ EffectMissing(ls, scene_id, effect_id)
                \/ IdOf(args) # None /\ SegmentMissing(ls, scene_id, effect_id, IdOf(args)),
                /\ ~SegmentMissing(ls, scene_id, effect_id, IdOf(args))
                /\ Cardinality(DOMAIN ls[scene_id].effects[effect_id].segments) = 1)

OscSegmentParam ==
    \E scene_id \in OscSceneIdSet, effect_id \in OscEffectIdSet,
       segment_id \in OscSegmentIdSet, msg \in ParamMessageSet :
        OscDelivered("segment_param",
            SceneEffectSegmentCallback(handler.light_scenes, scene_id, effect_id,
                                       segment_id, msg[1], msg[2]),
            SegmentMissing(handler.light_scenes, scene_id, effect_id, segment_id),
            FALSE)

\* Accepted segment messages, in list form and in single-value form.
SetterMessageSet ==
    { <<"color", <<OscList(<<OscNum(3), OscNum(2), OscNum(1), OscNum(0)>>)>> >>,
      <<"color", <<OscNum(5)>> >>,
      <<"move_range", <<OscList(<<OscNum(40), OscNum(20)>>)>> >>,
      <<"move_range", <<OscStr(TextPair)>> >>,
      <<"move_range", <<OscNum(30)>> >>,
      <<"move_range", <<OscNum(-3)>> >>,
      <<"move_speed", <<OscNum(-5)>> >>,
      <<"transparency", <<OscList(<<OscNum(1), OscNum(0), OscNum(1), OscNum(0)>>)>> >>,
      <<"transparency", <<OscNum(0)>> >>,
      <<"dimmer_time", <<OscList(<<OscNum(0), OscNum(50), OscNum(60), OscNum(90), OscNum(100)>>)>> >>,
      <<"dimmer_time", <<OscNum(500)>> >>,
      <<"dimmer_time_ratio", <<OscNum(2)>> >>,
      <<"is_edge_reflect", <<OscNum(0)>> >>,
      <<"is_edge_reflect", <<OscStr(TextOff)>> >>,
      <<"length", <<OscList(<<OscNum(5), OscNum(10), OscNum(15)>>)>> >> }

\* A segment message a client sends, and may send once more.
OscSetter ==
    \E msg \in SetterMessageSet :
        OscDeliveredMsg("segment_param",
            SceneEffectSegmentCallback(handler.light_scenes, 1, 1, 1, msg[1], msg[2]),
            FALSE, FALSE, <<msg[1], msg[2]>>)

OscLegacySegment ==
    \E effect_id \in OscEffectIdSet, segment_id \in OscSegmentIdSet, msg \in ParamMessageSet :
        OscDeliveredMsg("legacy_segment",
            LegacyEffectSegmentCallback(handler.light_scenes, effect_id,
                                        segment_id, msg[1], msg[2]),
            FALSE, FALSE, <<effect_id, segment_id, msg[1], msg[2]>>)

OscLegacyObject ==
    \E effect_id \in OscEffectIdSet, object_id \in OscSegmentIdSet, msg \in ParamMessageSet :
        OscDeliveredMsg("legacy_object",
            LegacyEffectObjectCallback(handler.light_scenes, effect_id,
                                       object_id, msg[1], msg[2]),
            FALSE, FALSE, <<effect_id, object_id, msg[1], msg[2]>>)

OscAddScene ==
    \E args \in IdArgsSet :
        OscDelivered("add_scene",
            SceneManagerAddSceneCallback(handler.light_scenes, args), FALSE, FALSE)

OscRemoveScene ==
    \E args \in IdArgsSet :
        LET ls == handler.light_scenes
        IN  OscDelivered("remove_scene",
                SceneManagerRemoveSceneCallback(ls, args),
                FALSE, IdOf(args) \in DOMAIN ls /\ Cardinality(DOMAIN ls) = 1)

OscNext ==
    \/ OscAddEffect
    \/ OscRemoveEffect
    \/ OscChangeEffect
    \/ OscChangePalette
    \/ OscSetPalette
    \/ OscAddSegment
    \/ OscRemoveSegment
    \/ OscSegmentParam
    \/ OscAddScene
    \/ OscRemoveScene

\* /request/init
OscRequestInit ==
    \E args \in IdArgsSet :
        OscReplied("request_init", Returned(handler.light_scenes), FALSE, FALSE,
                   <<args>>, InitCallback(handler.light_scenes, args))

OscSetterNext == OscSetter

\* A client that changes the model and asks for it.
OscInitNext ==
    \/ OscRequestInit
    \/ OscSetter
    \/ OscSetPalette

\* The palette messages, of a scene and of one effect, with effects and
\* scenes being added.
OscPaletteNext ==
    \/ OscSetPalette
    \/ OscEffectSetPalette
    \/ OscEffectDirectPalette
    \/ OscAddEffect
    \/ OscAddScene

\* main's loop body: for scene in light_scenes.values(): scene.update().
\* The first update() that raises ends the loop, and the scenes before it
\* have been updated.
RECURSIVE UpdateScenes(_, _)
UpdateScenes(ls, ids) ==
    IF ids = <<>> THEN Returned(ls)
    ELSE IF UpdateRaises(ls[Head(ids)]) THEN Raised("KeyError", ls)
    ELSE UpdateScenes([ls EXCEPT ![Head(ids)] = SceneUpdateAll(@)], Tail(ids))

\* OSCHandler.__init__ given no scenes: light_scenes or {1: LightScene(1)},
\* a scene that owns no effect; or given the scenes main creates.
OscDefaultInit ==
    /\ \E max_segments \in MaxSegmentsSet, sc \in {NewScene, MainScene} :
          handler = [ light_scenes |-> [i \in {1} |-> sc],
                      max_segments |-> max_segments ]
    /\ oscLog = [ op |-> "init", error |-> "none", before |-> <<>>,
                  missing |-> FALSE, last |-> FALSE, count |-> 0,
                  msg |-> <<>>, repeated |-> FALSE,
                  replies |-> <<>>, previous |-> <<>> ]

\* One round of the render loop; it is counted with the messages.
OscTick ==
    OscDelivered("tick",
        UpdateScenes(handler.light_scenes, Sorted(DOMAIN handler.light_scenes)),
        FALSE, FALSE)

\* Transitions begun by messages, and the render loop.
OscTickNext ==
    \/ OscChangePalette
    \/ OscChangeEffect
    \/ OscAddEffect
    \/ OscTick

\* color, transparency and length messages: lists of the right and of
\* other lengths, strs parsed to lists, single values, stops in and out
\* of [0, 1].
ListMessageSet ==
    { <<"color", <<OscList(<<OscNum(3), OscNum(2), OscNum(1), OscNum(0)>>)>> >>,
      <<"color", <<OscList(<<OscNum(3), OscNum(2)>>)>> >>,
      <<"color", <<OscStr(TextPair)>> >>,
      <<"color", <<OscNum(5)>> >>,
      <<"transparency", <<OscList(<<OscNum(1), OscNum(0), OscNum(1), OscNum(0)>>)>> >>,
      <<"transparency", <<OscList(<<OscNum(2), OscNum(-1), OscNum(1), OscNum(0)>>)>> >>,
      <<"transparency", <<OscList(<<OscNum(1), OscNum(0)>>)>> >>,
      <<"transparency", <<OscStr(TextPair)>> >>,
      <<"transparency", <<OscNum(3)>> >>,
      <<"transparency", <<OscNum(-2)>> >>,
      <<"length", <<OscList(<<OscNum(5), OscNum(10), OscNum(15)>>)>> >>,
      <<"length", <<OscList(<<OscNum(5), OscNum(10)>>)>> >>,
      <<"length", <<OscStr(TextPair)>> >> }

OscListParam ==
    \E segment_id \in OscSegmentIdSet, msg \in ListMessageSet :
        OscDeliveredMsg("list_param",
            SceneEffectSegmentCallback(handler.light_scenes, 1, 1, segment_id,
                                       msg[1], msg[2]),
            FALSE, FALSE, <<segment_id, msg[1], msg[2]>>)

\* The list-valued parameters of the segments, with segments being added.
OscListNext ==
    \/ OscListParam
    \/ OscAddSegment

\* Argument tuples of the save messages: no path, a path, a number.
SavePathArgsSet == {<<>>, <<OscStr(TextWord)>>, <<OscNum(1)>>}

\* The loop at the head of scene_save_effects_callback: effect.time and
\* segment.time of every effect and segment of the scene become 0.0.
ResetTimes(sc) ==
    [sc EXCEPT !.effects =
        [e \in DOMAIN sc.effects |->
            [sc.effects[e] EXCEPT
                !.time = 0,
                !.segments = [g \in DOMAIN sc.effects[e].segments |->
                                 [sc.effects[e].segments[g] EXCEPT !.time = 0]]]]]

\* scene_save_effects_callback: without a path or for an unknown scene
\* nothing happens; otherwise the times are reset, the scene is written
\* to the file, and an error of the writing is caught and reported.
SceneSaveEffectsCallback(ls, scene_id, args) ==
    IF Len(args) < 1 THEN Returned(ls)
    ELSE IF scene_id \notin DOMAIN ls THEN Returned(ls)
    ELSE Returned([ls EXCEPT ![scene_id] = ResetTimes(@)])

\* /scene/{s}/save_effects path
OscSaveEffects ==
    \E scene_id \in OscSceneIdSet, args \in SavePathArgsSet :
        OscDeliveredMsg("save_effects",
            SceneSaveEffectsCallback(handler.light_scenes, scene_id, args),
            SceneMissing(handler.light_scenes, scene_id), FALSE,
            <<scene_id, args>>)

\* Saving while the animation runs.
OscSaveNext ==
    \/ OscSaveEffects
    \/ OscTick
    \/ OscAddSegment

\* /scene/{s}/effect/{e}/add_segment segment_ID, with the message kept in
\* the log.
OscAddSegmentAt ==
    \E scene_id \in OscSceneIdSet, effect_id \in OscEffectIdSet, args \in IdArgsSet :
        OscDeliveredMsg("add_segment_at",
            SceneEffectAddSegmentCallback(handler.light_scenes, handler.max_segments,
                                          scene_id, effect_id, args),
            EffectMissing(handler.light_scenes, scene_id, effect_id), FALSE,
            <<scene_id, effect_id, args>>)

\* Segments being added and removed, in effects that come and go.
OscSegmentsNext ==
    \/ OscAddSegmentAt
    \/ OscRemoveSegment
    \/ OscAddEffect

\* Legacy clients: their segment messages, with scenes coming and going.
OscLegacyNext ==
    \/ OscLegacySegment
    \/ OscLegacyObject
    \/ OscAddScene
    \/ OscRemoveScene

OscIdle ==
    /\ handler = [light_scenes |-> <<>>, max_segments |-> 0]
    /\ oscLog = [ op |-> "init", error |-> "none", before |-> <<>>,
                  missing |-> FALSE, last |-> FALSE, count |-> 0,
                  msg |-> <<>>, repeated |-> FALSE,
                  replies |-> <<>>, previous |-> <<>> ]

---------------------------------------------------------------------------
(* OSCHandler: the binary output of the LED colours                        *)

\* time.time() is read in units of 1 / UnitsPerSecond s.
UnitsPerSecond == 4

\* The clock when the handler is constructed: time.time() is far from 0.
ClockStart == UnitsPerSecond

\* The clock stops here.
MaxClock == 9

\* fps arguments of /update_serial_output.
EmitFpsSet == {2, 4}

\* BinarySendSkipped without the test of the interval.
BinarySendSkipped_NoInterval(e, current_time) == ~e.send_binary_enabled

\* not send_binary_enabled or current_time - last_binary_send_time <
\* binary_send_interval: send_led_binary_data returns at once.
BinarySendSkipped(e, current_time) ==
    \/ ~e.send_binary_enabled
    \/ (current_time - e.last_binary_send_time) * e.binary_send_interval.d
           < UnitsPerSecond * e.binary_send_interval.n

\* OSCHandler.__init__: the fields of the binary output.
EmitInit ==
    /\ emitter = [ send_binary_enabled   |-> TRUE,
                   last_binary_send_time |-> 0,
                   binary_send_interval  |-> Frac(1, DEFAULT_FPS) ]
    /\ wire = [ now |-> ClockStart, sends |-> <<>>, since |-> ClockStart,
                fps |-> DEFAULT_FPS ]

\* Time passes.
EmitClock ==
    /\ wire.now < MaxClock
    /\ wire' = [wire EXCEPT !.now = @ + 1]
    /\ UNCHANGED emitter
    /\ EmitFrame

\* send_led_binary_data(), called by SceneManager.update: led_colors is
\* what get_led_output returned; an empty list ends the call after
\* last_binary_send_time was set.
SendLedBinaryData ==
    \E has_colors \in BOOLEAN :
        LET current_time == wire.now
        IN  /\ ~BinarySendSkipped(emitter, current_time)
            /\ emitter' = [emitter EXCEPT !.last_binary_send_time = current_time]
            /\ wire' = IF has_colors
                       THEN [wire EXCEPT !.sends = Append(@,
                               [ time     |-> current_time,
                                 enabled  |-> emitter.send_binary_enabled,
                                 previous |-> emitter.last_binary_send_time,
                                 interval |-> emitter.binary_send_interval ])]
                       ELSE wire
            /\ EmitFrame

\* update_serial_output_callback with one argument: enabled.
UpdateSerialOutputEnabled ==
    \E enabled \in BOOLEAN :
        /\ emitter' = [emitter EXCEPT !.send_binary_enabled = enabled]
        /\ UNCHANGED wire
        /\ EmitFrame

\* update_serial_output_callback with four arguments: enabled, ip, port
\* and an fps > 0.
UpdateSerialOutputFps ==
    \E enabled \in BOOLEAN, fps \in EmitFpsSet :
        /\ emitter' = [emitter EXCEPT !.send_binary_enabled = enabled,
                                      !.binary_send_interval = Frac(1, fps)]
        /\ wire' = [wire EXCEPT !.fps = fps,
                                !.since = IF fps = wire.fps THEN @ ELSE wire.now]
        /\ EmitFrame

EmitNext ==
    \/ EmitClock
    \/ SendLedBinaryData
    \/ UpdateSerialOutputEnabled
    \/ UpdateSerialOutputFps

EmitIdle ==
    /\ emitter = [ send_binary_enabled   |-> TRUE,
                   last_binary_send_time |-> 0,
                   binary_send_interval  |-> Frac(1, DEFAULT_FPS) ]
    /\ wire = [ now |-> 0, sends |-> <<>>, since |-> 0, fps |-> 0 ]

---------------------------------------------------------------------------
(* The server's threads and the render loop                                *)

\* start_server builds a ThreadingOSCUDPServer: serve_forever hands every
\* datagram to a thread of its own, and the render loop runs on the main
\* thread. No lock guards the tables of scenes, effects and segments, so
\* a step of one thread may follow any step of another.

\* Number of render ticks of a behaviour.
MaxRenderTicks == 2

\* Number of datagrams that arrive in a behaviour.
MaxArrived == 3

\* Speeds the arriving move_speed messages carry.
ArrivedSpeedSet == {-5, 15, 20}

\* The dicts json.loads makes of the color bundles sent to a segment.
BundleSet ==
    { OscDict([k \in {"colors", "speed"} |->
                 IF k = "colors"
                 THEN OscList(<<OscNum(3), OscNum(2), OscNum(1), OscNum(0)>>)
                 ELSE OscNum(v)]) : v \in {-20} }

\* The "color" branch on a dict, lines 1107-1110: the colors.
BundleColors(s, value) ==
    IF "colors" \in DOMAIN value.entries
    THEN UpdateParam(s, "color", value.entries["colors"])
    ELSE Kept(s)

\* The "color" branch on a dict, lines 1112-1115: the speed.
BundleSpeed(s, value) ==
    IF "speed" \in DOMAIN value.entries
    THEN UpdateParam(s, "move_speed", value.entries["speed"])
    ELSE Kept(s)

\* iter(self.segments.values()): the entries to visit and the size of the
\* dict when the iteration began.
SegmentIterator(e) ==
    [ used |-> Cardinality(DOMAIN e.segments), rest |-> Sorted(DOMAIN e.segments) ]

\* next() of a dict iterator raises RuntimeError when the size of the dict
\* is no longer the one the iteration began with.
IteratorBroken(e, it) == Cardinality(DOMAIN e.segments) # it.used

\* The segments of scene 1, effect 1 in the threads' table.
RaceEffect == threads.light_scenes[1].effects[1]

RaceInit ==
    \E max_segments \in MaxSegmentsSet :
        threads = [ light_scenes |-> [i \in {1} |-> MainScene],
                    max_segments |-> max_segments,
                    bundle       |-> <<>>,
                    iterator     |-> <<>>,
                    torn         |-> FALSE,
                    error        |-> "none",
                    ticks        |-> 0,
                    arrived      |-> <<>>,
                    started      |-> {},
                    applied      |-> <<>> ]

\* A thread of the server in scene_effect_segment_callback on a color
\* bundle: the segment is looked up and its colors are assigned.
ServeBundleColors ==
    \E segment_id \in OscSegmentIdSet, value \in BundleSet :
        /\ threads.error = "none"
        /\ threads.bundle = <<>>
        /\ segment_id \in DOMAIN RaceEffect.segments
        /\ threads' = [threads EXCEPT
              !.light_scenes[1].effects[1].segments[segment_id] =
                  BundleColors(@, value).segment,
              !.bundle = << [segment_id |-> segment_id, value |-> value,
                             in_table |-> TRUE] >>]
        /\ RaceFrame

\* The same thread goes on: the speed is assigned to the segment it holds,
\* which a remove_segment in between has taken out of the table.
ServeBundleSpeed ==
    /\ threads.error = "none"
    /\ threads.bundle # <<>>
    /\ LET b == threads.bundle[1]
       IN  threads' = [threads EXCEPT
              !.light_scenes[1].effects[1].segments =
                  IF b.in_table
                  THEN [@ EXCEPT ![b.segment_id] = BundleSpeed(@, b.value).segment]
                  ELSE @,
              !.bundle = <<>>]
    /\ RaceFrame

\* A thread of the server in scene_effect_add_segment_callback.
ServeAddSegment ==
    \E args \in IdArgsSet :
        /\ threads.error = "none"
        /\ threads' = [threads EXCEPT
              !.light_scenes =
                  SceneEffectAddSegmentCallback(@, threads.max_segments,
                                                1, 1, args).light_scenes]
        /\ RaceFrame

\* A thread of the server in scene_effect_remove_segment_callback.
ServeRemoveSegment ==
    \E args \in IdArgsSet :
        /\ threads.error = "none"
        /\ LET done == SceneEffectRemoveSegmentCallback(threads.light_scenes,
                                                        1, 1, args).light_scenes
               gone == DOMAIN RaceEffect.segments \ DOMAIN done[1].effects[1].segments
           IN  threads' = [threads EXCEPT
                  !.light_scenes = done,
                  !.bundle = IF @ # <<>> /\ @[1].segment_id \in gone
                             THEN << [@[1] EXCEPT !.in_table = FALSE] >>
                             ELSE @]
        /\ RaceFrame

\* The main thread enters LightEffect.update_all: the time advances and
\* the iteration over self.segments.values() begins.
RenderBegin ==
    /\ threads.error = "none"
    /\ threads.iterator = <<>>
    /\ threads.ticks < MaxRenderTicks
    /\ threads' = [threads EXCEPT
          !.light_scenes[1].effects[1].time = @ + TimeStep(RaceEffect.fps),
          !.iterator = << SegmentIterator(RaceEffect) >>,
          !.ticks = @ + 1]
    /\ RaceFrame

\* One round of the loop of update_all: next() of the iterator, then
\* segment.time = self.time and segment.update_position(self.fps). The
\* tick has seen a message in part when the segment it updates is the one
\* a thread is in the middle of a bundle on.
RenderStep ==
    /\ threads.error = "none"
    /\ threads.iterator # <<>>
    /\ LET it == threads.iterator[1]
           e  == RaceEffect
       IN  IF IteratorBroken(e, it)
           THEN threads' = [threads EXCEPT !.error = "RuntimeError",
                                           !.iterator = <<>>]
           ELSE IF it.rest = <<>>
           THEN threads' = [threads EXCEPT !.iterator = <<>>]
           ELSE LET segment_id == Head(it.rest)
                    left == << [it EXCEPT !.rest = Tail(it.rest)] >>
                IN  IF segment_id \notin DOMAIN e.segments
                    THEN threads' = [threads EXCEPT !.iterator = left]
                    ELSE threads' = [threads EXCEPT
                            !.light_scenes[1].effects[1].segments[segment_id] =
                                UpdatePosition([@ EXCEPT !.time = e.time], e.fps),
                            !.iterator = left,
                            !.torn = @ \/ (/\ threads.bundle # <<>>
                                           /\ threads.bundle[1].in_table
                                           /\ threads.bundle[1].segment_id = segment_id)]
    /\ RaceFrame

RaceNext ==
    \/ ServeBundleColors
    \/ ServeBundleSpeed
    \/ ServeAddSegment
    \/ ServeRemoveSegment
    \/ RenderBegin
    \/ RenderStep

\* serve_forever receives a datagram /scene/1/effect/1/segment/1/move_speed
\* and starts the thread that will handle it.
ServeReceive ==
    \E move_speed \in ArrivedSpeedSet :
        /\ Len(threads.arrived) < MaxArrived
        /\ threads' = [threads EXCEPT
              !.arrived = Append(@, move_speed),
              !.started = @ \cup {Len(threads.arrived) + 1}]
        /\ RaceFrame

\* One of the started threads runs scene_effect_segment_callback.
ServeHandle ==
    \E k \in threads.started :
        /\ threads' = [threads EXCEPT
              !.light_scenes =
                  SceneEffectSegmentCallback(@, 1, 1, 1, "move_speed",
                      <<OscNum(threads.arrived[k])>>).light_scenes,
              !.started = @ \ {k},
              !.applied = Append(@, k)]
        /\ RaceFrame

ArrivalNext == ServeReceive \/ ServeHandle

RaceIdle ==
    threads = [ light_scenes |-> <<>>, max_segments |-> 0, bundle |-> <<>>,
                iterator |-> <<>>, torn |-> FALSE, error |-> "none",
                ticks |-> 0, arrived |-> <<>>, started |-> {},
                applied |-> <<>> ]

---------------------------------------------------------------------------
(* The colours of the palette tables                                       *)

\* The scene records above hold the names of a scene's palettes; here the
\* colours of each scene's table are kept beside them, in tables.colors.

\* Number of messages of a behaviour.
MaxPaletteMessages == 3

\* Argument tuples of /palette/{X}: none, a number, and flat lists of
\* length 0, 3, 6 and 4 and one holding a str.
FlatArgsSet ==
    { <<>>,
      <<OscNum(7)>>,
      <<OscList(<<>>)>>,
      <<OscList(<<OscNum(300), OscNum(-5), OscNum(7)>>)>>,
      <<OscList(<<OscNum(1), OscNum(2), OscNum(3), OscNum(4), OscNum(5), OscNum(6)>>)>>,
      <<OscList(<<OscNum(1), OscNum(2), OscNum(3), OscNum(4)>>)>>,
      <<OscList(<<OscNum(1), OscStr("a"), OscNum(3)>>)>> }

\* The loop of lines 1794-1799: triples of the flat list, each channel
\* through int() and clamped to [0, 255].
Reshape(flat) ==
    [k \in 1..(Len(flat) \div 3) |->
        << Clamp255(flat[3 * k - 2].num), Clamp255(flat[3 * k - 1].num),
           Clamp255(flat[3 * k].num) >>]

\* LightScene.update_palette(palette_id, colors) on a scene and the
\* colours of its table.
UpdatePaletteColors(sc, table, palette_id, colors) ==
    IF palette_id \in sc.palettes
    THEN [ scene |-> UpdatePalette(sc, palette_id),
           table |-> [table EXCEPT ![palette_id] = colors] ]
    ELSE [ scene |-> sc, table |-> table ]

\* How a callback leaves the scenes and the colours of their tables.
Painted(error, ls, colors) == [error |-> error, light_scenes |-> ls, colors |-> colors]

\* legacy_palette_callback for /palette/{palette_id}.
LegacyPaletteCallback(ls, colors, palette_id, args) ==
    IF Len(args) < 1 THEN Painted("IndexError", ls, colors)
    ELSE LET colors_flat == args[1]
         IN  IF colors_flat.kind # "list" \/ Len(colors_flat.items) % 3 # 0
             THEN Painted("none", ls, colors)
             ELSE IF \E k \in 1..Len(colors_flat.items) :
                        colors_flat.items[k].kind # "num"
             THEN Painted("ValueError", ls, colors)
             ELSE LET new == Reshape(colors_flat.items)
                      done == [i \in DOMAIN ls |->
                                  UpdatePaletteColors(ls[i], colors[i], palette_id, new)]
                  IN  Painted("none", [i \in DOMAIN ls |-> done[i].scene],
                                      [i \in DOMAIN ls |-> done[i].table])

\* The tables of the scenes of ls: those of colors, and a copy of
\* DEFAULT_COLOR_PALETTES for a scene that is new (LightScene.__init__).
TablesOf(ls, colors) ==
    [i \in DOMAIN ls |->
        IF i \in DOMAIN colors THEN colors[i] ELSE DEFAULT_COLOR_PALETTES]

PalInit ==
    \E max_segments \in MaxSegmentsSet :
        tables = [ light_scenes |-> [i \in {1} |-> MainScene],
                   colors       |-> [i \in {1} |-> DEFAULT_COLOR_PALETTES],
                   max_segments |-> max_segments,
                   op           |-> "init",
                   error        |-> "none",
                   before       |-> <<>>,
                   msg          |-> <<>>,
                   count        |-> 0 ]

\* A message has been handled: what it was and what it found.
PalDelivered(op, done, msg) ==
    /\ tables.count < MaxPaletteMessages
    /\ tables' = [tables EXCEPT
          !.light_scenes = done.light_scenes,
          !.colors = done.colors,
          !.op = op,
          !.error = done.error,
          !.before = << [light_scenes |-> tables.light_scenes,
                         colors |-> tables.colors] >>,
          !.msg = msg,
          !.count = @ + 1]
    /\ PalFrame

\* A callback that leaves the colours of the tables alone.
Unpainted(done) ==
    Painted(done.error, done.light_scenes, TablesOf(done.light_scenes, tables.colors))

PalLegacyPalette ==
    \E palette_id \in {"A", "B"}, args \in FlatArgsSet :
        PalDelivered("legacy_palette",
            LegacyPaletteCallback(tables.light_scenes, tables.colors, palette_id, args),
            <<palette_id, args>>)

PalSetPalette ==
    \E scene_id \in OscSceneIdSet, args \in PaletteArgsSet :
        PalDelivered("set_palette",
            Unpainted(ScenePaletteCallback(tables.light_scenes, scene_id, args)),
            <<scene_id, args>>)

PalAddSegment ==
    \E scene_id \in OscSceneIdSet, args \in IdArgsSet :
        PalDelivered("add_segment",
            Unpainted(SceneEffectAddSegmentCallback(tables.light_scenes,
                          tables.max_segments, scene_id, 1, args)),
            <<scene_id, args>>)

PalAddScene ==
    \E args \in IdArgsSet :
        PalDelivered("add_scene",
            Unpainted(SceneManagerAddSceneCallback(tables.light_scenes, args)),
            <<args>>)

PalNext ==
    \/ PalLegacyPalette
    \/ PalSetPalette
    \/ PalAddSegment
    \/ PalAddScene

PalIdle ==
    tables = [ light_scenes |-> <<>>, colors |-> <<>>, max_segments |-> 0,
               op |-> "init", error |-> "none", before |-> <<>>,
               msg |-> <<>>, count |-> 0 ]

---------------------------------------------------------------------------
(* Which scene is on stage: the handler, its simulator, the SceneManager   *)

\* Number of scene manager messages of a behaviour.
MaxLiveMessages == 3

\* Number of frames handed to the binary output in a behaviour.
MaxLiveFrames == 3

\* scene_ID arguments of the scene manager messages.
LiveSceneIdSet == {1, 2, 3}

\* The simulators the handler can hold: none (headless), an
\* LEDSimulator(scene=...) whose scene_manager is None, and an
\* LEDSimulator(scene_manager=...).
SimulatorSet == {"none", "scene", "manager"}

\* A SceneManager holding scenes 1 and 2, each with one effect, with the
\* given fade times.
StageManager(fade) ==
    [AddScene(AddScene(NewManager, 1, MgrScene(10)), 2, MgrScene(10))
        EXCEPT !.fade_in_time = fade, !.fade_out_time = fade]

\* The handler with scenes 1 and 2, one of the simulators, and the
\* SceneManager of that simulator; LEDSimulator.__init__ sets
\* active_scene_id to the id of its scene.
LiveInit ==
    \E sim \in SimulatorSet, fade \in {0, 400 * MsDen} :
        /\ sim # "manager" => fade = 0
        /\ stage = [ light_scenes    |-> {1, 2},
                     simulator       |-> sim,
                     active_scene_id |-> IF sim = "none" THEN None ELSE 1,
                     manager         |-> IF sim = "manager"
                                         THEN StageManager(fade)
                                         ELSE NewManager,
                     frames          |-> <<>>,
                     requested       |-> None,
                     replied         |-> FALSE,
                     op              |-> "init",
                     msg             |-> None,
                     count           |-> 0 ]

\* _update_simulator(scene_id): simulator.scene and active_scene_id.
UpdateSimulator(st, scene_id) ==
    IF st.simulator # "none" /\ scene_id \in st.light_scenes
    THEN [st EXCEPT !.active_scene_id = scene_id]
    ELSE st

\* scene_manager_switch_scene_callback: an unknown scene is ignored; the
\* simulator, when there is one, is pointed at the scene, and
\* /scene_manager/scene_switched is sent. The SceneManager is not called.
SceneManagerSwitchSceneCallback(st, scene_id) ==
    IF scene_id \notin st.light_scenes
    THEN [st EXCEPT !.replied = FALSE]
    ELSE [UpdateSimulator(st, scene_id) EXCEPT !.replied = TRUE,
                                               !.requested = scene_id]

\* scene_manager_add_scene_callback: a new scene enters light_scenes and
\* the simulator is pointed at it.
StageAddSceneCallback(st, scene_id) ==
    IF scene_id \in st.light_scenes
    THEN [st EXCEPT !.replied = FALSE]
    ELSE [UpdateSimulator([st EXCEPT !.light_scenes = @ \cup {scene_id}],
                          scene_id)
             EXCEPT !.replied = TRUE, !.requested = None]

\* The least element of a non-empty set of ids.
MinId(S) == CHOOSE i \in S : \A j \in S : i <= j

\* send_led_binary_data: the id of the scene whose get_led_output fills
\* the frame, None when led_colors stays empty.
FrameSource(st) ==
    IF st.simulator = "manager"
    THEN IF MgrReturnsEarly(st.manager) THEN None
         ELSE st.manager.current_scene
    ELSE IF st.light_scenes = {} THEN None
    ELSE LET current_scene_id ==
                 IF st.simulator # "none" /\ st.active_scene_id # None
                 THEN st.active_scene_id
                 ELSE MinId(st.light_scenes)
         IN  IF current_scene_id \in st.light_scenes THEN current_scene_id
             ELSE None

\* send_led_binary_data once the send interval has passed.
SendFrame(st) ==
    IF FrameSource(st) = None THEN st
    ELSE [st EXCEPT !.frames = Append(@, FrameSource(st))]

LiveDelivered(op, done, scene_id) ==
    /\ stage.count < MaxLiveMessages
    /\ stage' = [done EXCEPT !.op = op, !.msg = scene_id, !.count = @ + 1]
    /\ LiveFrame

\* /scene_manager/switch_scene scene_id
LiveSwitchScene ==
    \E scene_id \in LiveSceneIdSet :
        LiveDelivered("switch_scene",
                      SceneManagerSwitchSceneCallback(stage, scene_id), scene_id)

\* /scene_manager/add_scene scene_id
LiveAddScene ==
    \E scene_id \in LiveSceneIdSet :
        LiveDelivered("add_scene",
                      StageAddSceneCallback(stage, scene_id), scene_id)

\* One frame: SceneManager.update, which ends with send_led_binary_data,
\* when the simulator has a SceneManager; send_led_binary_data alone
\* otherwise.
LiveRender ==
    /\ Len(stage.frames) < MaxLiveFrames
    /\ LET updated ==
               IF stage.simulator = "manager" /\ ~MgrReturnsEarly(stage.manager)
               THEN [stage EXCEPT !.manager = MgrUpdateAll(@).m]
               ELSE stage
       IN  stage' = [SendFrame(updated) EXCEPT !.op = "frame"]
    /\ LiveFrame

LiveNext ==
    \/ LiveSwitchScene
    \/ LiveAddScene
    \/ LiveRender

LiveIdle ==
    stage = [ light_scenes |-> {}, simulator |-> "none",
              active_scene_id |-> None, manager |-> NewManager,
              frames |-> <<>>, requested |-> None, replied |-> FALSE,
              op |-> "init", msg |-> None, count |-> 0 ]

---------------------------------------------------------------------------
(* Specifications                                                          *)

InitSegment == SegInit /\ EffIdle /\ CompIdle /\ SceneIdle /\ MgrIdle /\ OscIdle /\ FloatIdle /\ EmitIdle /\ RaceIdle /\ PalIdle /\ LiveIdle

SpecSegment == InitSegment /\ [][SegNext]_vars

InitDimming == DimInit /\ EffIdle /\ CompIdle /\ SceneIdle /\ MgrIdle /\ OscIdle /\ FloatIdle /\ EmitIdle /\ RaceIdle /\ PalIdle /\ LiveIdle

SpecDimming == InitDimming /\ [][DimNext]_vars

InitEffect == EffInit /\ SegIdle /\ CompIdle /\ SceneIdle /\ MgrIdle /\ OscIdle /\ FloatIdle /\ EmitIdle /\ RaceIdle /\ PalIdle /\ LiveIdle

SpecEffect == InitEffect /\ [][EffNext]_vars

InitComposite == CompInit /\ SegIdle /\ EffIdle /\ SceneIdle /\ MgrIdle /\ OscIdle /\ FloatIdle /\ EmitIdle /\ RaceIdle /\ PalIdle /\ LiveIdle

SpecComposite == InitComposite /\ [][CompNext]_vars

InitScene == SceneInit /\ SegIdle /\ EffIdle /\ CompIdle /\ MgrIdle /\ OscIdle /\ FloatIdle /\ EmitIdle /\ RaceIdle /\ PalIdle /\ LiveIdle

SpecScene == InitScene /\ [][SceneNext]_vars

InitSceneTable == SceneInit /\ SegIdle /\ EffIdle /\ CompIdle /\ MgrIdle /\ OscIdle /\ FloatIdle /\ EmitIdle /\ RaceIdle /\ PalIdle /\ LiveIdle

SpecSceneTable == InitSceneTable /\ [][SceneTableNext]_vars

SpecSceneLive == InitScene /\ [][SceneLiveNext]_vars /\ WF_vars(SceneRepeatUpdate)

InitManager == MgrInit /\ SegIdle /\ EffIdle /\ CompIdle /\ SceneIdle /\ OscIdle /\ FloatIdle /\ EmitIdle /\ RaceIdle /\ PalIdle /\ LiveIdle

SpecManager == InitManager /\ [][MgrNext]_vars

InitOsc == OscInit /\ SegIdle /\ EffIdle /\ CompIdle /\ SceneIdle /\ MgrIdle /\ FloatIdle /\ EmitIdle /\ RaceIdle /\ PalIdle /\ LiveIdle

SpecOsc == InitOsc /\ [][OscNext]_vars

InitEmitter == EmitInit /\ SegIdle /\ EffIdle /\ CompIdle /\ SceneIdle /\ MgrIdle /\ OscIdle /\ FloatIdle /\ RaceIdle /\ PalIdle /\ LiveIdle

SpecEmitter == InitEmitter /\ [][EmitNext]_vars

SpecOscSetters == InitOsc /\ [][OscSetterNext]_vars

SpecOscInit == InitOsc /\ [][OscInitNext]_vars

SpecOscLegacy == InitOsc /\ [][OscLegacyNext]_vars

InitManagerFloat == FloatInit /\ SegIdle /\ EffIdle /\ CompIdle /\ SceneIdle /\ MgrIdle /\ OscIdle /\ EmitIdle /\ RaceIdle /\ PalIdle /\ LiveIdle

SpecManagerFloat == InitManagerFloat /\ [][FloatNext]_vars

SpecOscPalette == InitOsc /\ [][OscPaletteNext]_vars

InitReflect == ReflectInit /\ EffIdle /\ CompIdle /\ SceneIdle /\ MgrIdle /\ OscIdle /\ FloatIdle /\ EmitIdle /\ RaceIdle /\ PalIdle /\ LiveIdle

SpecReflect == InitReflect /\ [][ReflectNext]_vars

InitOscDefault == OscDefaultInit /\ SegIdle /\ EffIdle /\ CompIdle /\ SceneIdle /\ MgrIdle /\ FloatIdle /\ EmitIdle /\ RaceIdle /\ PalIdle /\ LiveIdle

SpecOscTick == InitOscDefault /\ [][OscTickNext]_vars

InitPalettes == PalInit /\ SegIdle /\ EffIdle /\ CompIdle /\ SceneIdle /\ MgrIdle /\ OscIdle /\ FloatIdle /\ EmitIdle /\ RaceIdle /\ LiveIdle

SpecPalettes == InitPalettes /\ [][PalNext]_vars

InitLive == LiveInit /\ SegIdle /\ EffIdle /\ CompIdle /\ SceneIdle /\ MgrIdle /\ OscIdle /\ FloatIdle /\ EmitIdle /\ RaceIdle /\ PalIdle

SpecLive == InitLive /\ [][LiveNext]_vars

SpecOscLists == InitOsc /\ [][OscListNext]_vars

SpecOscSave == InitOsc /\ [][OscSaveNext]_vars

SpecOscSegments == InitOsc /\ [][OscSegmentsNext]_vars

InitThreads == RaceInit /\ SegIdle /\ EffIdle /\ CompIdle /\ SceneIdle /\ MgrIdle /\ OscIdle /\ FloatIdle /\ EmitIdle /\ PalIdle /\ LiveIdle

SpecThreads == InitThreads /\ [][RaceNext]_vars

SpecArrival == InitThreads /\ [][ArrivalNext]_vars

\* update() keeps being called.
SpecManagerLive == SpecManager /\ WF_vars(MgrUpdate)

---------------------------------------------------------------------------
(* Claims on the segment's motion (checked under SpecSegment)              *)

Ticked == segOp.op = "update_position"

FitsRange(s) == Sum3(s.length) <= RangeWidth(s)

\* C1: for a segment in reflect mode whose total_length fits the range,
\* after every call of update_position the anchor is at or above
\* move_range[0] and the last LED current_position + total_length - 1 is at
\* or below move_range[1].
C1_ReflectKeepsInRange ==
    (Ticked /\ segment.is_edge_reflect /\ FitsRange(segment))
        => (LowerOk(segment) /\ UpperOk(segment))

\* C1 witness: a reflect-mode tick of a segment of positive length that
\* overshot the upper edge and was put back.
C1_Witness ==
    /\ Ticked
    /\ segment.is_edge_reflect
    /\ FitsRange(segment)
    /\ Sum3(segment.length) >= 2
    /\ segOp.raw + (Sum3(segment.length) - 1) * PosDen
            > segment.move_range[2] * PosDen
    /\ segment.current_position
            = (segment.move_range[2] - Sum3(segment.length) + 1) * PosDen

\* C2 (as claimed): in every state reached from a segment constructed inside
\* its range by ticks and parameter updates, the anchor is at or above
\* move_range[0], and the last LED is at or below move_range[1] whenever the
\* total length fits the range.
C2_AlwaysInRange ==
    (segStartOk /\ segOp.op # "init")
        => /\ LowerOk(segment)
           /\ (FitsRange(segment) => UpperOk(segment))

\* C2 (amended): right after an update_position tick, in reflect or wrap
\* mode, a segment whose total length fits the range has its anchor at or
\* above move_range[0] and its last LED at or below move_range[1]; right
\* after a move_range update the anchor lies in [move_range[0],
\* move_range[1]].
C2_InRangeAfterTick ==
    /\ (Ticked /\ FitsRange(segment))
            => (LowerOk(segment) /\ UpperOk(segment))
    /\ segOp.op = "move_range"
            => /\ LowerOk(segment)
               /\ segment.current_position <= segment.move_range[2] * PosDen

\* C2 witness: a wrap-mode tick that overshot the upper edge, wrapped, and
\* had to be clamped back by the final clamp.
C2_Witness ==
    /\ Ticked
    /\ ~segment.is_edge_reflect
    /\ FitsRange(segment)
    /\ Sum3(segment.length) >= 2
    /\ segOp.raw + (Sum3(segment.length) - 1) * PosDen
            > segment.move_range[2] * PosDen
    /\ WrapOvershoot(segment, segOp.raw, Sum3(segment.length))
            # segment.current_position

\* The tick of scenario S3: wrap mode, length [1,1,1], move_range [0,9],
\* current_position 9, move_speed +15, one tick at fps 10.
S3Ticked ==
    /\ Ticked
    /\ segOp.fps = 10
    /\ segOp.from = 9 * PosDen
    /\ ~segment.is_edge_reflect
    /\ segment.length = <<1, 1, 1>>
    /\ segment.move_range = <<0, 9>>
    /\ segment.move_speed = 15

\* C3 (as claimed): the S3 tick has raw new position 10.5 and ends with
\* current_position = 0.
C3_WrapEndsAtZero ==
    S3Ticked => (2 * segOp.raw = 21 * PosDen /\ segment.current_position = 0)

\* C3 (amended): the S3 tick has raw new position 10.5 and ends with
\* current_position = 2.5 (overshoot of the last LED 12.5 - 9 = 3.5, wrapped
\* to 0 + 3.5 - 1, inside the range, so the final clamp does nothing).
C3_WrapEndsAtTwoAndHalf ==
    S3Ticked => (2 * segOp.raw = 21 * PosDen
                 /\ 2 * segment.current_position = 5 * PosDen)

\* C3 witness: the S3 tick has happened.
C3_Witness == S3Ticked /\ segment.time = TimeStep(10)

---------------------------------------------------------------------------
(* Claims on the dimming envelope (checked under SpecDimming)              *)

\* The scaled stops t0, t1, t2, t3 and the scaled cycle length T.
DimT0 == DimScaled(segment, 1)

DimT1 == DimScaled(segment, 2)

DimT2 == DimScaled(segment, 3)

DimT3 == DimScaled(segment, 4)

DimT == DimScaled(segment, 5)

DimOrdered ==
    /\ 0 <= DimT0 /\ DimT0 <= DimT1 /\ DimT1 <= DimT2
    /\ DimT2 <= DimT3 /\ DimT3 <= DimT

\* (time in ms) mod T, exactly, as a count of 1/MsDen ms (T > 0).
TauExact == segment.time % (DimT * MsDen)

\* The whole milliseconds of (time in ms) mod T (T > 0).
TauWhole == (segment.time % (DimT * MsDen)) \div MsDen

\* The envelope of scenario S4 (dimmer_time [0,100,400,500,1000], ratio 1,
\* fade on) at the given time in ms, when that is the current state.
S4At(ms) ==
    /\ brightness.valid
    /\ segment.fade
    /\ segment.dimmer_time = <<0, 100, 400, 500, 1000>>
    /\ segment.dimmer_time_ratio = RatioDen
    /\ segment.time = ms * MsDen

S4Values ==
    /\ S4At(50) => FracEq(brightness.value, Frac(1, 2))
    /\ S4At(250) => FracEq(brightness.value, Frac(1, 1))
    /\ S4At(450) => FracEq(brightness.value, Frac(1, 2))
    /\ S4At(600) => FracEq(brightness.value, Frac(0, 1))
    /\ S4At(1050) => FracEq(brightness.value, Frac(1, 2))

\* C4 (as claimed): the envelope is 1 when fade is off or T <= 0; otherwise,
\* for ordered stops and tau = (time in ms) mod T, it is 0 on [0,t0),
\* (tau-t0)/max(1,t1-t0) on [t0,t1), 1 on [t1,t2), 1-(tau-t2)/max(1,t3-t2) on
\* [t2,t3) and 0 on [t3,T); and the S4 values are 0.5, 1, 0.5, 0, 0.5.
C4_EnvelopeExactTau ==
    brightness.valid =>
        /\ (~segment.fade \/ DimT <= 0) => FracEq(brightness.value, Frac(1, 1))
        /\ (segment.fade /\ DimT > 0 /\ DimOrdered) =>
            LET tau == TauExact
                v   == brightness.value
            IN  /\ tau < DimT0 * MsDen => FracEq(v, Frac(0, 1))
                /\ (DimT0 * MsDen <= tau /\ tau < DimT1 * MsDen) =>
                       FracEq(v, Frac(tau - DimT0 * MsDen,
                                      MsDen * Max(1, DimT1 - DimT0)))
                /\ (DimT1 * MsDen <= tau /\ tau < DimT2 * MsDen) =>
                       FracEq(v, Frac(1, 1))
                /\ (DimT2 * MsDen <= tau /\ tau < DimT3 * MsDen) =>
                       FracEq(v, Frac(MsDen * Max(1, DimT3 - DimT2)
                                          - (tau - DimT2 * MsDen),
                                      MsDen * Max(1, DimT3 - DimT2)))
                /\ DimT3 * MsDen <= tau => FracEq(v, Frac(0, 1))
        /\ S4Values

\* C4 (amended): the same table with the stops and T the integer parts of
\* dimmer_time[i] * ratio and tau the whole milliseconds of
\* (time in ms) mod T; and the S4 values are 0.5, 1, 0.5, 0, 0.5.
C4_EnvelopeWholeMs ==
    brightness.valid =>
        /\ (~segment.fade \/ DimT <= 0) => FracEq(brightness.value, Frac(1, 1))
        /\ (segment.fade /\ DimT > 0 /\ DimOrdered) =>
            LET tau == TauWhole
                v   == brightness.value
            IN  /\ tau < DimT0 => FracEq(v, Frac(0, 1))
                /\ (DimT0 <= tau /\ tau < DimT1) =>
                       FracEq(v, Frac(tau - DimT0, Max(1, DimT1 - DimT0)))
                /\ (DimT1 <= tau /\ tau < DimT2) => FracEq(v, Frac(1, 1))
                /\ (DimT2 <= tau /\ tau < DimT3) =>
                       FracEq(v, Frac(Max(1, DimT3 - DimT2) - (tau - DimT2),
                                      Max(1, DimT3 - DimT2)))
                /\ DimT3 <= tau => FracEq(v, Frac(0, 1))
        /\ S4Values

\* C4 witness: the envelope computed in the fade-out ramp of a later cycle,
\* at a time that is not a whole number of milliseconds.
C4_Witness ==
    /\ brightness.valid
    /\ segment.fade
    /\ DimT > 0
    /\ DimOrdered
    /\ segment.time > DimT * MsDen
    /\ segment.time % MsDen # 0
    /\ DimT2 <= TauWhole /\ TauWhole < DimT3
    /\ brightness.value.n > 0
    /\ brightness.value.n < brightness.value.d

---------------------------------------------------------------------------
(* Claims about LightEffect.get_led_output (SpecEffect)                    *)

Channels(c) == \A k \in 1..3 : c[k] \in 0..255

\* C5: whatever the effect's segments, positions and palette, a call of
\* get_led_output returns exactly led_count pixels and every channel of every
\* pixel is an integer in [0,255].
C5_FrameOfLedCountPixels ==
    ledOutput.valid =>
        /\ ledOutput.error = "none"
        /\ Len(ledOutput.leds) = effect.led_count
        /\ \A i \in 1..Len(ledOutput.leds) : Channels(ledOutput.leds[i])

HasLitSegment(e) ==
    \E i \in DOMAIN e.segments : Sum3(e.segments[i].length) > 0

\* C6: for an effect that owns at least one segment of total length > 0, the
\* render path never raises: get_led_output completes with a frame.
C6_RenderNeverRaises ==
    (ledOutput.valid /\ HasLitSegment(effect)) => ledOutput.error = "none"

RedHalf == EffSegment(<<0, 0, 0, 0>>, <<Half, Half, Half, Half>>, <<1, 0, 0>>, 0)

BlueHalf == EffSegment(<<2, 2, 2, 2>>, <<Half, Half, Half, Half>>, <<1, 0, 0>>, 0)

RedUnderBlue ==
    /\ effect.current_palette = "A"
    /\ effect.time = 0
    /\ DOMAIN effect.segments = {1, 2}
    /\ effect.segments[1] = RedHalf
    /\ effect.segments[2] = BlueHalf

\* C7: with segment 1 red at alpha 0.5 and segment 2 blue at alpha 0.5 on
\* LED 0 (whatever the order they were added in), the rendered colour of
\* LED 0 is (85,0,170): the larger id is in front and weighs more.
C7_LargerIdInFront ==
    (ledOutput.valid /\ RedUnderBlue) =>
        /\ ledOutput.error = "none"
        /\ ledOutput.leds[1] = <<85, 0, 170>>

---------------------------------------------------------------------------
(* Claims about the compositing step (SpecComposite)                       *)

\* C8: a sample of alpha 1 composited over any pixel gives exactly the
\* sample's colour with accumulated alpha 1, and a sample of alpha 0 over a
\* pixel of accumulated alpha 0 gives colour (0,0,0) with alpha 0.
C8_AlphaOverIdentities ==
    compIn.layers > 0 =>
        /\ FracEq(compIn.alpha, Frac(1, 1)) =>
              /\ pixel.color = compIn.color
              /\ FracEq(pixel.alpha, Frac(1, 1))
        /\ (FracEq(compIn.alpha, Frac(0, 1))
              /\ FracEq(compIn.before.alpha, Frac(0, 1))) =>
              /\ pixel.color = <<0, 0, 0>>
              /\ FracEq(pixel.alpha, Frac(0, 1))

---------------------------------------------------------------------------
(* Claims about LightScene.update (SpecScene)                              *)

Updated == sceneLog.op = "update" /\ ~sceneLog.raised

Pending(sc) == sc.effect_transition_active \/ sc.palette_transition_active

FadeTotal(sc) == sc.fade_in_time + sc.fade_out_time

SameSelection(sc, before) ==
    /\ sc.current_effect_ID = before.current_effect_ID
    /\ sc.current_palette = before.current_palette
    /\ \A i \in DOMAIN before.effects :
          sc.effects[i].current_palette = before.effects[i].current_palette

\* C9: an update() call made while a transition is pending, after fewer
\* ticks k than k/fps >= fade_in + fade_out needs, leaves current_effect_ID,
\* current_palette and every effect's palette as they were.
C9_NoSwapBeforeFadeEnds ==
    (Updated /\ Pending(sceneLog.before[1])
             /\ sceneLog.due < FadeTotal(sceneLog.before[1]))
        => SameSelection(scene, sceneLog.before[1])

Cleared(sc) ==
    /\ ~sc.effect_transition_active
    /\ ~sc.palette_transition_active
    /\ sc.next_effect_idx = None
    /\ sc.next_palette_idx = NonePalette

\* C10: in a transition started with both a next effect and a next palette,
\* every update() call advances transition_start_time by exactly 1/fps, and
\* the first call that brings it to fade_in + fade_out applies the effect
\* switch and the palette change together and clears both flags and both
\* next_* fields.
C10_BothAppliedTogether ==
    (Updated /\ sceneLog.both /\ Pending(sceneLog.before[1])) =>
        LET before == sceneLog.before[1]
            t      == before.transition_start_time + SceneStep(before)
        IN  IF t >= FadeTotal(before)
            THEN /\ Cleared(scene)
                 /\ scene.current_effect_ID =
                        SwitchEffect(before, before.next_effect_idx).current_effect_ID
                 /\ scene.current_palette =
                        SceneSetPalette(before, before.next_palette_idx).current_palette
            ELSE /\ scene.transition_start_time = t
                 /\ scene.effect_transition_active
                 /\ scene.palette_transition_active
                 /\ SameSelection(scene, before)


\* C11: in every reachable state of a scene current_effect_ID is null or a
\* key of effects, and current_palette is a key of the palette table.
C11_CurrentKeysExist ==
    /\ scene.current_effect_ID = None
          \/ scene.current_effect_ID \in DOMAIN scene.effects
    /\ scene.current_palette \in scene.palettes


---------------------------------------------------------------------------
(* Claims about SceneManager (SpecManager, SpecManagerLive)                *)

HasFps(sc, fps) ==
    /\ sc.current_effect_ID \in DOMAIN sc.effects
    /\ sc.effects[sc.current_effect_ID].fps = fps

\* Scenario S6 after k ticks: scenes 1 and 2 run at fps 10, scene 1 was
\* current when the only command asked for scene 2 with fade_out = fade_in
\* = 0.2 s.
S6Tick(k) ==
    /\ mgrLog.op = "update"
    /\ mgrLog.updates = k
    /\ mgrLog.cmds = 1
    /\ mgrLog.undisturbed
    /\ mgrLog.cmd = <<2, None, NonePalette>>
    /\ mgrLog.from = 1
    /\ mgrLog.target = 2
    /\ manager.fade_out_time = 400
    /\ manager.fade_in_time = 400
    /\ HasFps(manager.scenes[1], 10)
    /\ HasFps(manager.scenes[2], 10)

OpacityIs(n, d) == FracEq(manager.transition_opacity, Frac(n, d))

\* C12 as stated: in S6 the tick at 0.1 s leaves scene 1 current at opacity
\* 0.5, the tick at 0.2 s gives opacity 0 and swaps to scene 2, the tick at
\* 0.3 s shows scene 2 at opacity 0.5, and the opacity is 1 once the
\* schedule has ended.
C12_S6SwapAtFadeOutEnd ==
    /\ S6Tick(1) => manager.current_scene = 1 /\ OpacityIs(1, 2)
    /\ S6Tick(2) => manager.current_scene = 2 /\ OpacityIs(0, 1)
    /\ S6Tick(3) => manager.current_scene = 2 /\ OpacityIs(1, 2)
    /\ \A k \in 1..8 :
          (S6Tick(k) /\ ~manager.is_transitioning) => OpacityIs(1, 1)

\* C12 amended: in S6 the tick at 0.1 s leaves scene 1 current at opacity
\* 0.5, the tick at 0.2 s gives opacity 0 with scene 1 still current, the
\* tick at 0.3 s swaps to scene 2 at opacity 0, the tick at 0.4 s shows
\* scene 2 at opacity 0.5, the tick at 0.5 s gives opacity 1 and the tick at
\* 0.6 s ends the schedule with opacity 1.
C12_S6SwapInHold ==
    /\ S6Tick(1) => manager.current_scene = 1 /\ OpacityIs(1, 2)
    /\ S6Tick(2) => manager.current_scene = 1 /\ OpacityIs(0, 1)
    /\ S6Tick(3) => manager.current_scene = 2 /\ OpacityIs(0, 1)
                       /\ mgrLog.swapped
    /\ S6Tick(4) => manager.current_scene = 2 /\ OpacityIs(1, 2)
    /\ S6Tick(5) => manager.current_scene = 2 /\ OpacityIs(1, 1)
                       /\ manager.is_transitioning
    /\ S6Tick(6) => manager.current_scene = 2 /\ OpacityIs(1, 1)
                       /\ ~manager.is_transitioning

C12_Witness == S6Tick(3) /\ manager.current_scene = 2 /\ mgrLog.swapped

\* C13: a transition started with next_scene_idx naming an existing scene
\* eventually makes that scene current, as long as update() keeps being
\* called, the scene is not removed and no further command is given
\* (target is the scene the latest command named; commands are finitely
\* many).
C13_TargetBecomesCurrent ==
    \A s \in SceneIdSet :
        (mgrLog.target = s)
            ~> (manager.current_scene = s \/ mgrLog.target # s)

\* With exact arithmetic for the floats the opacity of the manager stays
\* within 0 and 1 and no update() divides by zero: what leaves the range
\* below is the rounding of the floats alone.
ExactOpacityInUnitRange ==
    /\ FracLe(Frac(0, 1), manager.transition_opacity)
    /\ FracLe(manager.transition_opacity, Frac(1, 1))
    /\ mgrLog.error # "ZeroDivisionError"

\* C14: in every reachable state 0 <= transition_opacity <= 1 and no
\* update() has divided by zero, with the floats of the program.
C14_OpacityInUnitRange ==
    /\ ~ftrans.below_zero
    /\ FLe(ftrans.transition_opacity, FOne)
    /\ ftrans.error # "ZeroDivisionError"

MgrEnded ==
    /\ ~manager.is_transitioning
    /\ OpacityIs(1, 1)
    /\ manager.next_scene_idx = None
    /\ manager.next_effect_idx = None
    /\ manager.next_palette_idx = NonePalette

\* C15: every transition that is started ends: with update() called again
\* and again and no further command, a state is reached where
\* is_transitioning is false, transition_opacity is 1 and next_scene_idx,
\* next_effect_idx and next_palette_idx are cleared.
C15_TransitionEnds == manager.is_transitioning ~> MgrEnded

\* C16: a swap applies targets of the latest command only: each of the
\* scene, effect and palette it uses is the one the latest command named,
\* or none.
C16_OnlyLatestCommandApplied ==
    mgrLog.swapped =>
        \A i \in 1..3 :
            mgrLog.used[i] = mgrLog.cmd[i] \/ mgrLog.used[i] = NoTargets[i]

\* C18: removing the only scene of the manager is refused: after
\* remove_scene the scene table is not empty and current_scene is a key of it.
C18_LastSceneKept ==
    (mgrLog.op = "remove_scene" /\ mgrLog.removed_last) =>
        /\ DOMAIN manager.scenes # {}
        /\ manager.current_scene \in DOMAIN manager.scenes

---------------------------------------------------------------------------
(* Claims on the control messages (checked under SpecOsc)                  *)

\* Every scene of the table owns an effect and every effect a segment.
EveryOwnerKeepsOne(ls) ==
    \A s \in DOMAIN ls :
        /\ Cardinality(DOMAIN ls[s].effects) >= 1
        /\ \A e \in DOMAIN ls[s].effects :
              Cardinality(DOMAIN ls[s].effects[e].segments) >= 1

\* The last callback left the table of scenes as it found it.
OscUnchanged == handler.light_scenes = oscLog.before[1]

\* C17: after any sequence of add_segment, remove_segment, add_effect and
\* remove_effect messages (and of the other modelled messages) every scene
\* owns at least one effect and every effect at least one segment, and a
\* remove message aimed at the last segment of an effect or the last effect
\* of a scene returns with the table of scenes unchanged.
C17_LastOnesKept ==
    /\ EveryOwnerKeepsOne(handler.light_scenes)
    /\ (oscLog.last /\ oscLog.op \in {"remove_segment", "remove_effect"})
          => (oscLog.error = "none" /\ OscUnchanged)

\* A remove_effect message was aimed at the only effect of a scene that,
\* by then, another message had changed.
C17_Witness ==
    /\ oscLog.op = "remove_effect"
    /\ oscLog.last
    /\ oscLog.count = MaxMessages

\* C19: no control message makes its callback end in an exception: every
\* callback returns.
C19_CallbacksReturn == oscLog.error = "none"

\* C20: a message whose scene, effect or segment does not exist leaves
\* the table of scenes, with every effect, segment, parameter and pending
\* transition in it, as it was.
C20_MissingTargetDropped == oscLog.missing => OscUnchanged

\* A change_effect message named an effect the addressed scene does not
\* have.
C20_Witness ==
    /\ oscLog.op = "change_effect"
    /\ oscLog.missing
    /\ Cardinality(DOMAIN oscLog.before[1]) = 2

\* The last message was a legacy segment or object message.
LegacyDelivered == oscLog.op \in {"legacy_segment", "legacy_object"}

\* C21: a legacy message /effect/{e}/segment/{g}/{param} or
\* /effect/{e}/object/{g}/{param} leaves the state the canonical message
\* /scene/1/effect/{e}/segment/{g}/{param} with the same arguments leaves
\* when scene 1, effect e and segment g existed, and after any legacy
\* message scene 1, effect e and segment g all exist.
C21_LegacyAsCanonical ==
    LegacyDelivered =>
        LET before     == oscLog.before[1]
            effect_id  == oscLog.msg[1]
            segment_id == oscLog.msg[2]
        IN  /\ ~SegmentMissing(handler.light_scenes, 1, effect_id, segment_id)
            /\ ~SegmentMissing(before, 1, effect_id, segment_id) =>
                   handler.light_scenes =
                       SceneEffectSegmentCallback(before, 1, effect_id, segment_id,
                           oscLog.msg[3], oscLog.msg[4]).light_scenes

\* C22: segment parameter setters are idempotent: an accepted segment
\* message (color, move_range, move_speed, transparency, dimmer_time,
\* dimmer_time_ratio, is_edge_reflect, list form or single value)
\* delivered a second time in a row leaves the state the first delivery
\* left.
C22_SettersIdempotent ==
    (oscLog.repeated /\ oscLog.error = "none") => OscUnchanged

\* Datagrams sent at a time in [from, to).
SentIn(from, to) ==
    Cardinality({k \in 1..Len(wire.sends) :
                    from <= wire.sends[k].time /\ wire.sends[k].time < to})

\* The windows of at least 1 s since the fps was configured.
EmitWindows ==
    {w \in (wire.since..wire.now) \X (wire.since..(wire.now + 1)) :
        w[2] - w[1] >= UnitsPerSecond}

\* Every datagram was sent with the output enabled and at least the
\* configured interval after the previous pass of the guard.
SendsGuarded ==
    \A k \in 1..Len(wire.sends) :
        LET d == wire.sends[k]
        IN  /\ d.enabled
            /\ (d.time - d.previous) * d.interval.d >= UnitsPerSecond * d.interval.n

\* C23 as stated: datagrams are sent only when enabled and an interval
\* after the previous one, and a window of W >= 1 s holds at most
\* fps * W datagrams.
C23_RateWithinFps ==
    /\ SendsGuarded
    /\ \A w \in EmitWindows :
          SentIn(w[1], w[2]) * UnitsPerSecond <= wire.fps * (w[2] - w[1])

\* C23: datagrams are sent only when enabled and an interval after the
\* previous one, and a window of W >= 1 s holds at most fps * W + 1
\* datagrams: the guard spaces the datagrams, so a window that starts
\* on one of them holds one more than the rate allows.
C23_RateWithinFpsPlusOne ==
    /\ SendsGuarded
    /\ \A w \in EmitWindows :
          SentIn(w[1], w[2]) * UnitsPerSecond
              <= wire.fps * (w[2] - w[1]) + UnitsPerSecond

\* Three datagrams at 2 fps within 1.25 s.
C23_Witness ==
    /\ wire.fps = 2
    /\ \E w \in EmitWindows :
          w[2] - w[1] = UnitsPerSecond + 1 /\ SentIn(w[1], w[2]) = 3

DataModel(ls) ==
    [i \in DOMAIN ls |->
        [ current_effect_ID |-> ls[i].current_effect_ID,
          current_palette   |-> ls[i].current_palette,
          segments |-> [e \in DOMAIN ls[i].effects |->
              [g \in DOMAIN ls[i].effects[e].segments |->
                  LET s == ls[i].effects[e].segments[g]
                  IN  << s.length, s.color, s.transparency,
                         s.move_speed, s.move_range,
                         s.initial_position, s.is_edge_reflect,
                         s.dimmer_time, s.dimmer_time_ratio,
                         s.fade, s.gradient,
                         s.gradient_colors >>]] ]]

\* C25: two states that differ in a segment attribute of the data model
\* or in a scene's current effect or current palette are answered by
\* different sequences of messages (the states before and after a
\* message that changed the data model).
C25_RepliesTellStates ==
    (oscLog.before # <<>> /\ DataModel(oscLog.before[1]) # DataModel(handler.light_scenes))
        => InitCallback(oscLog.before[1], <<OscNum(1)>>)
               # InitCallback(handler.light_scenes, <<OscNum(1)>>)

\* C26: no render tick updates a segment on which a thread has applied
\* only part of a message (the colors of a bundle and not yet its speed),
\* and no tick iterates the table of segments while a message adds to it
\* or removes from it (the iteration would end in RuntimeError).
C26_MessagesAtomicForTicks ==
    /\ ~threads.torn
    /\ threads.error = "none"

\* C27: the messages are applied in the order of their arrival, and when
\* all have been applied the speed is that of the message that arrived
\* last.
C27_AppliedInArrivalOrder ==
    /\ \A i, j \in 1..Len(threads.applied) :
          i < j => threads.applied[i] < threads.applied[j]
    /\ (threads.arrived # <<>> /\ threads.started = {}) =>
          RaceEffect.segments[1].move_speed
              = threads.arrived[Len(threads.arrived)]

\* C28: set_palette(p) on a scene makes p the palette of the scene and of
\* every effect it owns when p is in the scene's table and changes nothing
\* otherwise; a set_palette or direct_palette message to one effect leaves
\* the palette of the scene and every other effect as they were.
C28_PaletteScopes ==
    /\ \A i \in DOMAIN handler.light_scenes, p \in PaletteIdSet \cup {"C"} :
          LET sc    == handler.light_scenes[i]
              after == SceneSetPalette(sc, p)
          IN  IF p \in sc.palettes
              THEN /\ after.current_palette = p
                   /\ \A e \in DOMAIN after.effects :
                         after.effects[e].current_palette = p
                   /\ DOMAIN after.effects = DOMAIN sc.effects
              ELSE after = sc
    /\ oscLog.op \in {"effect_set_palette", "effect_direct_palette"} =>
          LET before == oscLog.before[1]
              now    == handler.light_scenes
          IN  /\ DOMAIN now = DOMAIN before
              /\ \A i \in DOMAIN now :
                    /\ now[i].current_palette = before[i].current_palette
                    /\ DOMAIN now[i].effects = DOMAIN before[i].effects
                    /\ \A e \in DOMAIN now[i].effects :
                          <<i, e>> # <<oscLog.msg[1], oscLog.msg[2]>>
                              => now[i].effects[e] = before[i].effects[e]

\* One effect of a scene with two effects was given a palette of its
\* own, and set_palette on that scene can bring both to a third.
C28_Witness ==
    /\ oscLog.op \in {"effect_set_palette", "effect_direct_palette"}
    /\ \E i \in DOMAIN handler.light_scenes :
          LET sc == handler.light_scenes[i]
          IN  /\ i = oscLog.msg[1]
              /\ oscLog.msg[2] \in DOMAIN sc.effects
              /\ Cardinality(DOMAIN sc.effects) = 2
              /\ Cardinality({sc.effects[e].current_palette : e \in DOMAIN sc.effects}) = 2
              /\ sc.effects[oscLog.msg[2]].current_palette # sc.current_palette
              /\ oscLog.before[1][i].effects[oscLog.msg[2]].current_palette
                     = sc.current_palette

\* The segment of the example: length [1, 1, 1] in the range [0, 9].
InExample(s, position, move_speed) ==
    /\ s.length = <<1, 1, 1>>
    /\ s.move_range = <<0, 9>>
    /\ s.current_position = position * PosDen
    /\ s.move_speed = move_speed

\* What one tick in reflect mode does, by the raw new position.
ReflectTickRule ==
    (segOp'.op = "update_position" /\ segment.is_edge_reflect) =>
        LET fps == segOp'.fps
            raw == segment.current_position + (segment.move_speed * PosDen) \div fps
            lo  == segment.move_range[1] * PosDen
            hi  == segment.move_range[2] * PosDen
            total_length == Sum3(segment.length)
        IN  /\ raw < lo =>
                /\ segment'.current_position = lo
                /\ segment'.move_speed = Abs(segment.move_speed)
            /\ (raw >= lo /\ raw + (total_length - 1) * PosDen > hi) =>
                /\ segment'.current_position = hi - (total_length - 1) * PosDen
                /\ segment'.move_speed = -Abs(segment.move_speed)
            /\ (raw >= lo /\ raw + (total_length - 1) * PosDen <= hi) =>
                /\ segment'.current_position = raw
                /\ segment'.move_speed = segment.move_speed
            /\ (fps = 10 /\ InExample(segment, 8, 10)) => InExample(segment', 7, -10)
            /\ (fps = 10 /\ InExample(segment, 7, -10)) => InExample(segment', 6, -10)

\* C29: a tick in reflect mode applies at most one reflection: below lo
\* the segment is put at lo with speed +|speed|, with its last LED above
\* hi it is put at hi - total_length + 1 with speed -|speed|, otherwise it
\* moves by speed / fps and keeps its speed; from position 8 with length
\* [1, 1, 1], range [0, 9] and speed +10 two ticks at 10 fps lead to 7 and
\* then 6, with speed -10.
C29_OneReflectionPerTick == [][ReflectTickRule]_vars

\* The second tick of the example has been made: from 8 over 7 to 6.
C29_Witness ==
    /\ segOp.op = "update_position"
    /\ segOp.fps = 10
    /\ segOp.from = 7 * PosDen
    /\ segment.initial_position = 8
    /\ segment.time = 2 * TimeStep(10)
    /\ InExample(segment, 6, -10)

\* What a call of update_all does to the times, were each advanced by one
\* time step.
UpdateAllTimeRule ==
    effect'.time # effect.time =>
        /\ effect'.time = effect.time + TimeStep(effect.fps)
        /\ \A i \in DOMAIN effect.segments :
              effect'.segments[i].time
                  = effect.segments[i].time + TimeStep(effect.fps)

\* C30: a call of update_all advances the time of the effect by 1/fps and
\* the accumulated time of every segment it owns by 1/fps, so that the
\* segments created at time 0 of a fresh effect stay at the effect's time.
C30_TimesAdvanceByOneStep == [][UpdateAllTimeRule]_vars

\* C31: a transition of a scene that has begun completes under repeated
\* update() calls: both flags become false and next_effect_idx and
\* next_palette_idx null.
C31_SceneTransitionCompletes == Pending(scene) ~> Cleared(scene)

\* C32: update() of a scene the handler holds never raises, also when the
\* scene owns no effect and /scene/{s}/change_palette has begun a palette
\* transition on it: every round of the render loop ends without error.
C32_TickNeverRaises == oscLog.op = "tick" => oscLog.error = "none"

\* C33: /palette/{X} is applied to scene 1 only: a flat list of 3N
\* numbers replaces palette X of scene 1 by its N clamped triples, any
\* other argument changes nothing, and the tables of the other scenes
\* stay as they were.
C33_LegacyPaletteOnSceneOne ==
    tables.op = "legacy_palette" =>
        LET before == tables.before[1]
            X      == tables.msg[1]
            args   == tables.msg[2]
            whole  == /\ Len(args) >= 1
                      /\ args[1].kind = "list"
                      /\ Len(args[1].items) % 3 = 0
                      /\ \A k \in 1..Len(args[1].items) : args[1].items[k].kind = "num"
        IN  /\ DOMAIN tables.colors = DOMAIN before.colors
            /\ \A i \in DOMAIN tables.colors \ {1} :
                  tables.colors[i] = before.colors[i]
            /\ IF whole
               THEN tables.colors[1] =
                        [before.colors[1] EXCEPT ![X] = Reshape(args[1].items)]
               ELSE tables.colors[1] = before.colors[1]

\* The colours the stops of a segment stand for in a table: the colour at
\* each index, and (255, 0, 0) for an index outside the table.
TableRgb(color, palette) ==
    [k \in 1..Len(color) |->
        IF 0 <= color[k] /\ color[k] < Len(palette)
        THEN palette[color[k] + 1]
        ELSE <<255, 0, 0>>]

\* Every segment's rgb_color is what its colour indices stand for in the
\* table of its scene, for the palette of its effect.
CacheCoherent(ls, colors) ==
    \A i \in DOMAIN ls :
        \A e \in DOMAIN ls[i].effects :
            \A g \in DOMAIN ls[i].effects[e].segments :
                LET s == ls[i].effects[e].segments[g]
                IN  s.rgb_color
                      = TableRgb(s.color, colors[i][ls[i].effects[e].current_palette])

\* C36: after set_palette on a scene, after update_palette of a palette
\* with new colours, and after a segment was added to an effect, the cached
\* rgb_color of every segment is the colour its indices name in the scene's
\* table for the effect's current palette, red for an index out of range.
C36_CacheFollowsTable ==
    tables.op \in {"set_palette", "legacy_palette", "add_segment"}
        => CacheCoherent(tables.light_scenes, tables.colors)

\* The segments the handler holds.
AllSegments(ls) ==
    UNION { UNION { { ls[i].effects[e].segments[g] :
                        g \in DOMAIN ls[i].effects[e].segments } :
                    e \in DOMAIN ls[i].effects } :
            i \in DOMAIN ls }

\* C34: after any sequence of color, transparency and length messages
\* every segment has four colour indices, four transparency stops and
\* three sub-band lengths: a list of another length is not assigned.
C34_ListLengthsKept ==
    \A s \in AllSegments(handler.light_scenes) :
        /\ Len(s.color) = 4
        /\ Len(s.transparency) = 4
        /\ Len(s.length) = 3

\* C35: after a transparency message, a list or a single number, every
\* transparency stop of the segment lies in [0, 1].
C35_TransparencyInUnitRange ==
    (oscLog.op = "list_param" /\ oscLog.msg[2] = "transparency") =>
        \A s \in AllSegments(handler.light_scenes) :
            \A k \in 1..Len(s.transparency) :
                /\ FracLe(Frac(0, 1), s.transparency[k])
                /\ FracLe(s.transparency[k], Frac(1, 1))

\* C37: a /scene_manager/switch_scene message naming an existing scene
\* makes that scene the live one: after the message the SceneManager's
\* current_scene is the requested id (the manager of the model never starts
\* a transition, so none is pending), and every frame handed to the binary
\* output after it comes from that scene.
C37_SwitchMakesSceneLive ==
    /\ (stage.op = "switch_scene" /\ stage.replied /\ stage.simulator = "manager")
           => stage.manager.current_scene = stage.msg
    /\ (stage.op = "frame" /\ stage.requested # None /\ stage.frames # <<>>)
           => stage.frames[Len(stage.frames)] = stage.requested

RequestedId == IF IdOf(oscLog.msg[3]) = None THEN 1 ELSE IdOf(oscLog.msg[3])

\* C39: an add_segment message never overwrites a segment: an effect that
\* holds MAX_SEGMENTS segments, or an address naming no effect, leaves the
\* model unchanged; otherwise every segment there was keeps all its fields,
\* the effect holds exactly one segment more, the new one is stored under
\* the first free id from the requested one upwards, and nothing else
\* changes.
C39_AddSegmentNeverOverwrites ==
    oscLog.op = "add_segment_at" =>
        LET before    == oscLog.before[1]
            scene_id  == oscLog.msg[1]
            effect_id == oscLog.msg[2]
        IN  IF oscLog.missing THEN handler.light_scenes = before
            ELSE
            LET was == before[scene_id].effects[effect_id].segments
                now == handler.light_scenes[scene_id].effects[effect_id].segments
            IN  IF Cardinality(DOMAIN was) >= handler.max_segments
                THEN handler.light_scenes = before
                ELSE /\ \A g \in DOMAIN was : g \in DOMAIN now /\ now[g] = was[g]
                     /\ Cardinality(DOMAIN now) = Cardinality(DOMAIN was) + 1
                     /\ \A n \in DOMAIN now \ DOMAIN was :
                            /\ n >= RequestedId
                            /\ \A k \in RequestedId..(n - 1) : k \in DOMAIN was
                     /\ [handler.light_scenes EXCEPT
                            ![scene_id].effects[effect_id].segments = was] = before

\* An add_segment message asked for an id that was taken, and the segment
\* went to a larger id.
C39_Witness ==
    /\ oscLog.op = "add_segment_at"
    /\ ~oscLog.missing
    /\ LET was == oscLog.before[1][oscLog.msg[1]].effects[oscLog.msg[2]].segments
           now == handler.light_scenes[oscLog.msg[1]].effects[oscLog.msg[2]].segments
       IN  /\ RequestedId \in DOMAIN was
           /\ Cardinality(DOMAIN was) < handler.max_segments
           /\ \E n \in DOMAIN now \ DOMAIN was : n > RequestedId

====
